---------------------------- MODULE Spec2Model ----------------------------
(***************************************************************************)
(* A model of BallGift: the ledger (users table and its in-memory mirror), *)
(* the referral counter, the per-chat game lock and game flow of bot.py,   *)
(* and the pending_gifts queue drained by gift_worker.py.                  *)
(*                                                                         *)
(* Tables are functions whose DOMAIN is the set of keys that have a row.   *)
(* Every coroutine is cut at its awaits: what runs between two awaits is   *)
(* one action, because the bot is single-threaded asyncio.  A storage      *)
(* round trip may raise whenever db_pool is set.                           *)
(***************************************************************************)
EXTENDS Integers, Sequences, FiniteSets, TLC

VARIABLES
    db_pool,            \* bot.py: db_pool is set (TRUE) or None (FALSE)
    db_users,           \* table users
    mem_users,          \* bot._mem_users
    db_referrals,       \* table referrals
    mem_referrals,      \* bot._mem_referrals
    db_banned,          \* table banned_users
    mem_banned,         \* bot._mem_banned
    pending_gifts,      \* table pending_gifts, in created_at order
    mem_pending_gifts,  \* bot._mem_pending_gifts
    row_lock,           \* row locks held by open transactions on pending_gifts
    bot_stars,          \* table bot_state, key 'bot_stars'
    game_locks,         \* bot.py: game_locks, the chats that hold a lock
    delivered,          \* gifts the Telegram side has delivered, per user
    game,               \* start_game_flow invocations
    refcall,            \* increment_referred_play invocations
    worker,             \* worker_loop processes
    now,                \* int(time.time())
    invoice_map,        \* bot.py: invoice_map, payload -> chat of the request
    invoices,           \* invoices sent by send_invoice, as Telegram holds them
    call,               \* play_callback and on_successful_payment invocations
    free_runs,          \* per user, the times a free game took the lock
    updates,            \* updates dispatched to play_callback / on_successful_payment
    trial,              \* a function of the code applied to one input on its own
    pace,               \* time.monotonic(), and the readings each game took of it
    chg                 \* change_user_virtual invocations, one storage round trip at a time

vars == << db_pool, db_users, mem_users, db_referrals, mem_referrals,
           db_banned, mem_banned, pending_gifts, mem_pending_gifts, row_lock,
           bot_stars, game_locks, delivered, game, refcall, worker,
           now, invoice_map, invoices, call, free_runs, updates, trial, pace, chg >>

-----------------------------------------------------------------------------
(* Identifiers and bounds *)

Users == {"u1", "u2"}
Groups == {"grp"}
\* a private chat has the id of its user
Procs == {"g1", "g2"}
Workers == {"w1", "w2"}

MaxBalance == 4     \* cap on virtual_stars explored
MaxArg == 2         \* ledger calls are tried with arguments in -MaxArg..MaxArg
MaxPlays == 2       \* games start while the throws counted plus the games under way are below this
MaxThrows == 1      \* the interleaved games use the buttons of at most this many throws
MaxTasks == 2       \* cap on the rows of pending_gifts plus bot._mem_pending_gifts

-----------------------------------------------------------------------------
(* Ledger: users table with in-memory fallback *)

Put(tbl, k, row) == [x \in DOMAIN tbl \cup {k} |-> IF x = k THEN row ELSE tbl[x]]

EmptyTable == [x \in {} |-> 0]

DefaultRow ==
    [virtual_stars |-> 0, free_next_at |-> 0, spent_real |-> 0,
     earned_real |-> 0, plays_total |-> 0]

Greatest(a, b) == IF a >= b THEN a ELSE b

\* one storage round trip either succeeds or raises; without a pool the
\* in-memory branch runs
DbUp == IF db_pool THEN {TRUE, FALSE} ELSE {FALSE}

\* How the storage round trips of one call end: no pool at all ("nopool"),
\* all succeed ("ok"), the first one raises ("fail"), or a write succeeds and
\* a later round trip of the same call raises ("late").
DbFaults == IF db_pool THEN {"ok", "fail", "late"} ELSE {"nopool"}

MemSetDefault(mem, u) == IF u \in DOMAIN mem THEN mem ELSE Put(mem, u, DefaultRow)

MemVirtual(mem, u) == IF u \in DOMAIN mem THEN mem[u].virtual_stars ELSE 0

DbVirtual(db, u) == IF u \in DOMAIN db THEN db[u].virtual_stars ELSE 0

\* what u holds, in the table and in its mirror
Holdings(db, mem, u) == << DbVirtual(db, u), MemVirtual(mem, u) >>

\* an ensure_user whose INSERT overwrites the row it finds
ensure_user_reset(db, mem, u, ok) ==
    IF ok
    THEN [db |-> Put(db, u, DefaultRow), mem |-> mem, ret |-> DbVirtual(db, u)]
    ELSE [db |-> db, mem |-> Put(mem, u, DefaultRow), ret |-> MemVirtual(mem, u)]

\* ensure_user: (db, mem, ret) after one call; ret is virtual_stars
ensure_user(db, mem, u, ok) ==
    IF ok
    THEN [db |-> IF u \in DOMAIN db THEN db ELSE Put(db, u, DefaultRow),
          mem |-> mem, ret |-> DbVirtual(db, u)]
    ELSE [db |-> db, mem |-> MemSetDefault(mem, u), ret |-> MemVirtual(mem, u)]

\* the in-memory branch of change_user_virtual
MemChangeVirtual(mem, u, delta) ==
    LET m == MemSetDefault(mem, u)
    IN  [m EXCEPT ![u].virtual_stars = Greatest(m[u].virtual_stars + delta, 0)]

\* the UPDATE, or the INSERT ... ON CONFLICT DO UPDATE when there is no row
DbChangeVirtual(db, u, delta) ==
    IF u \in DOMAIN db
    THEN [db EXCEPT ![u].virtual_stars = Greatest(db[u].virtual_stars + delta, 0)]
    ELSE Put(db, u, [DefaultRow EXCEPT !.virtual_stars = Greatest(delta, 0)])

\* change_user_virtual: (db, mem, ret) after one call.  With a row the UPDATE
\* is the only round trip; without one the INSERT is followed by a SELECT,
\* and a SELECT that raises sends the call to the in-memory branch as well.
change_user_virtual(db, mem, u, delta, f) ==
    CASE f = "ok" \/ (f = "late" /\ u \in DOMAIN db) ->
            [db |-> DbChangeVirtual(db, u, delta), mem |-> mem,
             ret |-> DbVirtual(DbChangeVirtual(db, u, delta), u)]
      [] f = "late" /\ u \notin DOMAIN db ->
            [db |-> DbChangeVirtual(db, u, delta),
             mem |-> MemChangeVirtual(mem, u, delta),
             ret |-> MemVirtual(MemChangeVirtual(mem, u, delta), u)]
      [] OTHER ->
            [db |-> db, mem |-> MemChangeVirtual(mem, u, delta),
             ret |-> MemVirtual(MemChangeVirtual(mem, u, delta), u)]

\* the in-memory branch of set_user_virtual
MemSetVirtual(mem, u, value) ==
    [MemSetDefault(mem, u) EXCEPT ![u].virtual_stars = Greatest(value, 0)]

\* INSERT ... ON CONFLICT (user_id) DO UPDATE SET virtual_stars = $2
DbSetVirtual(db, u, value) ==
    IF u \in DOMAIN db
    THEN [db EXCEPT ![u].virtual_stars = value]
    ELSE Put(db, u, [DefaultRow EXCEPT !.virtual_stars = value])

\* set_user_virtual: (db, mem, ret) after one call; the write is followed by
\* a SELECT, which can raise after the write took effect
set_user_virtual(db, mem, u, value, f) ==
    CASE f = "ok" ->
            [db |-> DbSetVirtual(db, u, value), mem |-> mem, ret |-> value]
      [] f = "late" ->
            [db |-> DbSetVirtual(db, u, value), mem |-> MemSetVirtual(mem, u, value),
             ret |-> Greatest(value, 0)]
      [] OTHER ->
            [db |-> db, mem |-> MemSetVirtual(mem, u, value),
             ret |-> Greatest(value, 0)]

\* get_user_virtual reads through ensure_user
get_user_virtual(db, mem, u, ok) == ensure_user(db, mem, u, ok)

MemFreeNext(mem, u) == IF u \in DOMAIN mem THEN mem[u].free_next_at ELSE 0

DbFreeNext(db, u) == IF u \in DOMAIN db THEN db[u].free_next_at ELSE 0

\* get_user_free_next: (db, mem, ret) after one call: ensure_user, then the
\* SELECT, or the mirror when there is no pool or the SELECT raised
get_user_free_next(db, mem, u, ok1, ok2) ==
    LET e == ensure_user(db, mem, u, ok1)
    IN  [db |-> e.db, mem |-> e.mem,
         ret |-> IF ok2 THEN DbFreeNext(e.db, u) ELSE MemFreeNext(e.mem, u)]

\* set_user_free_next: (db, mem) after one call
set_user_free_next(db, mem, u, epoch_ts, ok) ==
    IF ok
    THEN [db |-> IF u \in DOMAIN db
                 THEN [db EXCEPT ![u].free_next_at = epoch_ts]
                 ELSE Put(db, u, [DefaultRow EXCEPT !.free_next_at = epoch_ts]),
          mem |-> mem]
    ELSE [db |-> db,
          mem |-> [MemSetDefault(mem, u) EXCEPT ![u].free_next_at = epoch_ts]]

MemSpent(mem, u) == IF u \in DOMAIN mem THEN mem[u].spent_real ELSE 0

DbSpent(db, u) == IF u \in DOMAIN db THEN db[u].spent_real ELSE 0

\* an add_user_spent_real whose INSERT replaces the row it finds
add_user_spent_real_replace(db, mem, u, amount, ok) ==
    IF ok
    THEN [db |-> Put(db, u, [DefaultRow EXCEPT !.spent_real = DbSpent(db, u) + amount]),
          mem |-> mem]
    ELSE [db |-> db,
          mem |-> Put(mem, u, [DefaultRow EXCEPT !.spent_real = MemSpent(mem, u) + amount])]

\* add_user_spent_real: (db, mem) after one call
add_user_spent_real(db, mem, u, amount, ok) ==
    IF ok
    THEN [db |-> IF u \in DOMAIN db
                 THEN [db EXCEPT ![u].spent_real = @ + amount]
                 ELSE Put(db, u, [DefaultRow EXCEPT !.spent_real = amount]),
          mem |-> mem]
    ELSE [db |-> db,
          mem |-> [MemSetDefault(mem, u) EXCEPT ![u].spent_real = @ + amount]]

MemEarned(mem, u) == IF u \in DOMAIN mem THEN mem[u].earned_real ELSE 0

DbEarned(db, u) == IF u \in DOMAIN db THEN db[u].earned_real ELSE 0

\* add_user_earned_real: (db, mem) after one call
add_user_earned_real(db, mem, u, amount, ok) ==
    IF ok
    THEN [db |-> IF u \in DOMAIN db
                 THEN [db EXCEPT ![u].earned_real = @ + amount]
                 ELSE Put(db, u, [DefaultRow EXCEPT !.earned_real = amount]),
          mem |-> mem]
    ELSE [db |-> db,
          mem |-> [MemSetDefault(mem, u) EXCEPT ![u].earned_real = @ + amount]]

-----------------------------------------------------------------------------
(* Frames shared by the specifications *)

IdleGame ==
    [pc |-> "idle", chat |-> "none", user |-> "none", count |-> 0,
     premium |-> FALSE, i |-> 0, results |-> << >>, hits |-> 0, win |-> FALSE,
     ret |-> "none"]
IdleRef == [pc |-> "idle", user |-> "none", inviter |-> "none", plays |-> 0,
            path |-> "none"]

\* a finished increment_referred_play call and the way it returned
RefDone(c, path) ==
    [pc |-> "done", user |-> c.user, inviter |-> "none", plays |-> 0, path |-> path]
IdleWorker == [pc |-> "poll", batch |-> << >>, i |-> 0, ok |-> FALSE]

\* no function is being tried
IdleTrial == [fn |-> "none", arg |-> << >>, out |-> << >>]

\* no change_user_virtual call is under way, none was made
IdleChange == [pc |-> "idle", user |-> "none", delta |-> 0, after |-> 0, ret |-> 0]
IdleChanges == [of |-> [p \in Procs |-> IdleChange], log |-> << >>]

\* `last_send_time = None`
None == -1

\* the clock at start-up; per game: last_send_time, for every dice sent the
\* clock when send_dice was called and when it returned, and the clock when
\* the hits were counted
IdlePace ==
    [clock |-> 0,
     of |-> [p \in Procs |-> [last_send_time |-> None, sent |-> << >>, scored |-> None]]]

\* no update is being handled
IdleCall ==
    [kind |-> "none", pc |-> "idle", chat |-> "none", user |-> "none",
     key |-> "none", now |-> 0, vstars |-> 0, free_next |-> 0, inv |-> 0,
     paid |-> 0, replay |-> FALSE, ret |-> "none"]

\* the state right after init_db, before any update is handled
InitTables ==
    /\ db_users = EmptyTable
    /\ mem_users = EmptyTable
    /\ db_referrals = EmptyTable
    /\ mem_referrals = EmptyTable
    /\ db_banned = {}
    /\ mem_banned = {}
    /\ pending_gifts = << >>
    /\ mem_pending_gifts = << >>
    /\ row_lock = EmptyTable
    /\ bot_stars = 0
    /\ game_locks = {}
    /\ delivered = [u \in Users |-> 0]
    /\ game = [p \in Procs |-> IdleGame]
    /\ refcall = [p \in Procs |-> IdleRef]
    /\ worker = [w \in Workers |-> IdleWorker]
    /\ now = 0
    /\ invoice_map = EmptyTable
    /\ invoices = << >>
    /\ call = [p \in Procs |-> IdleCall]
    /\ free_runs = [u \in Users |-> << >>]
    /\ updates = 0
    /\ trial = IdleTrial
    /\ pace = IdlePace
    /\ chg = IdleChanges

ledgerVars == << db_users, mem_users >>
refVars == << db_referrals, mem_referrals >>
banVars == << db_banned, mem_banned >>
queueVars == << pending_gifts, mem_pending_gifts, row_lock, bot_stars >>
payVars == << now, invoice_map, invoices, call, free_runs, updates, trial, pace, chg >>

-----------------------------------------------------------------------------
(* The ledger on its own: ensure_user, change_user_virtual, set_user_virtual
   called with any account and any small integer argument *)

Args == (0 - MaxArg) .. MaxArg

InRange(db, mem) ==
    /\ \A u \in DOMAIN db : db[u].virtual_stars <= MaxBalance
    /\ \A u \in DOMAIN mem : mem[u].virtual_stars <= MaxBalance

LedgerEnsure(u) ==
    \E ok \in DbUp :
        LET o == ensure_user(db_users, mem_users, u, ok)
        IN  /\ db_users' = o.db
            /\ mem_users' = o.mem

LedgerChange(u, delta) ==
    \E f \in DbFaults :
        LET o == change_user_virtual(db_users, mem_users, u, delta, f)
        IN  /\ InRange(o.db, o.mem)
            /\ db_users' = o.db
            /\ mem_users' = o.mem

LedgerSet(u, value) ==
    \E f \in DbFaults :
        LET o == set_user_virtual(db_users, mem_users, u, value, f)
        IN  /\ InRange(o.db, o.mem)
            /\ db_users' = o.db
            /\ mem_users' = o.mem

LedgerInit ==
    /\ db_pool \in BOOLEAN
    /\ InitTables

LedgerOthers ==
    UNCHANGED << db_pool, refVars, banVars, queueVars, game_locks,
                 delivered, game, refcall, worker, payVars >>

LedgerNext ==
    \/ \E u \in Users : LedgerEnsure(u) /\ LedgerOthers
    \/ \E u \in Users, d \in Args : LedgerChange(u, d) /\ LedgerOthers
    \/ \E u \in Users, v \in Args : LedgerSet(u, v) /\ LedgerOthers

LedgerSpec == LedgerInit /\ [][LedgerNext]_vars

\* C2: virtual_stars of every account is >= 0 in both stores, in every state
\* reachable by change_user_virtual and set_user_virtual calls with any
\* integer arguments
BalanceNonNegative ==
    /\ \A u \in DOMAIN db_users : db_users[u].virtual_stars >= 0
    /\ \A u \in DOMAIN mem_users : mem_users[u].virtual_stars >= 0

-----------------------------------------------------------------------------
(* Bans *)

\* is_banned: a lookup that raises answers False
is_banned(u, ok) ==
    IF db_pool THEN (ok /\ u \in db_banned) ELSE u \in mem_banned

-----------------------------------------------------------------------------
(* Referrals *)

REF_PLAYS == 5      \* plays after which the inviter is rewarded
REF_BONUS == 3      \* what the inviter is credited

NewLink(inviter) == [inviter |-> inviter, plays |-> 0, rewarded |-> FALSE]

\* a visit that overwrites the link it finds (ON CONFLICT DO UPDATE)
register_ref_visit_overwrite(db, mem, referred, inviter, ok) ==
    IF db_pool
    THEN IF ok
         THEN [db |-> Put(db, referred, NewLink(inviter)), mem |-> mem, ret |-> TRUE]
         ELSE [db |-> db, mem |-> mem, ret |-> FALSE]
    ELSE [db |-> db, mem |-> Put(mem, referred, NewLink(inviter)), ret |-> TRUE]

\* register_ref_visit: (db, mem, ret) after one call.  INSERT ... ON CONFLICT
\* DO NOTHING on the storage branch, where an exception returns False with
\* nothing written; the dict on the in-memory branch.
register_ref_visit(db, mem, referred, inviter, ok) ==
    IF db_pool
    THEN IF ok /\ referred \notin DOMAIN db
         THEN [db |-> Put(db, referred, NewLink(inviter)), mem |-> mem, ret |-> TRUE]
         ELSE [db |-> db, mem |-> mem, ret |-> FALSE]
    ELSE IF referred \notin DOMAIN mem
         THEN [db |-> db, mem |-> Put(mem, referred, NewLink(inviter)), ret |-> TRUE]
         ELSE [db |-> db, mem |-> mem, ret |-> FALSE]

\* a cmd_start without its `if inviter != uid`
CmdStartOutcomesSelf(u, inviter) ==
    { LET e1 == ensure_user(db_users, mem_users, u, ok1)
          r == IF inviter # "none"
               THEN register_ref_visit(db_referrals, mem_referrals, u, inviter, okr)
               ELSE [db |-> db_referrals, mem |-> mem_referrals, ret |-> FALSE]
          e2 == get_user_virtual(e1.db, e1.mem, u, ok2)
      IN  [users |-> e2.db, mem_users |-> e2.mem,
           referrals |-> r.db, mem_referrals |-> r.mem] :
        ok1 \in DbUp, okr \in DbUp, ok2 \in DbUp }

\* cmd_start with payload `inviter` ("none": no payload), past its ban check:
\* ensure_user, the referral visit, and the balance read for the menu; the
\* states the four tables can be left in, over the ways the round trips end
CmdStartOutcomes(u, inviter) ==
    { LET e1 == ensure_user(db_users, mem_users, u, ok1)
          r == IF inviter # "none" /\ inviter # u
               THEN register_ref_visit(db_referrals, mem_referrals, u, inviter, okr)
               ELSE [db |-> db_referrals, mem |-> mem_referrals, ret |-> FALSE]
          e2 == get_user_virtual(e1.db, e1.mem, u, ok2)
      IN  [users |-> e2.db, mem_users |-> e2.mem,
           referrals |-> r.db, mem_referrals |-> r.mem] :
        ok1 \in DbUp, okr \in DbUp, ok2 \in DbUp }

CmdStart(u, inviter) ==
    /\ \E b \in {is_banned(u, ok) : ok \in DbUp} : ~b
    /\ \E o \in CmdStartOutcomes(u, inviter) :
        /\ db_users' = o.users
        /\ mem_users' = o.mem_users
        /\ db_referrals' = o.referrals
        /\ mem_referrals' = o.mem_referrals

\* increment_referred_play without its `if rewarded: return`
RefAlreadyRewardedMutant(row) == FALSE

\* `if rewarded: return` of increment_referred_play
RefAlreadyRewarded(row) == row.rewarded

\* a threshold that lets the fifth play pass
RefThresholdLate(plays) == plays > REF_PLAYS

\* `if plays >= 5` of increment_referred_play
RefThresholdReached(plays) == plays >= REF_PLAYS

\* start_game_flow calls increment_referred_play(user_id)
RefInvoke(p, u) ==
    /\ refcall[p].pc = "idle"
    /\ refcall' = [refcall EXCEPT ![p] =
                     [pc |-> "read", user |-> u, inviter |-> "none", plays |-> 0,
                      path |-> "none"]]

\* storage branch: the SELECT.  No row, a rewarded row or an exception end
\* the call; otherwise plays + 1 is kept in the coroutine until the UPDATE.
RefDbRead(p) ==
    LET c == refcall[p]
    IN  /\ c.pc = "read"
        /\ db_pool
        /\ \E ok \in DbUp :
             IF ok /\ c.user \in DOMAIN db_referrals
                   /\ ~RefAlreadyRewarded(db_referrals[c.user])
             THEN refcall' = [refcall EXCEPT ![p] =
                      [c EXCEPT !.pc = "write",
                                !.inviter = db_referrals[c.user].inviter,
                                !.plays = db_referrals[c.user].plays + 1]]
             ELSE refcall' = [refcall EXCEPT ![p] = RefDone(c, IF ok /\ c.user \in DOMAIN db_referrals
                                   THEN "rewarded" ELSE "skipped")]
        /\ UNCHANGED << db_referrals, mem_referrals, ledgerVars >>

\* storage branch: the UPDATE, with rewarded=TRUE once plays reached 5; an
\* exception ends the call without the credit
RefDbWrite(p) ==
    LET c == refcall[p]
    IN  /\ c.pc = "write"
        /\ \E ok \in DbUp :
             IF ~ok
             THEN /\ refcall' = [refcall EXCEPT ![p] = RefDone(c, "error")]
                  /\ UNCHANGED db_referrals
             ELSE IF RefThresholdReached(c.plays)
             THEN /\ db_referrals' = [db_referrals EXCEPT
                         ![c.user].plays = c.plays, ![c.user].rewarded = TRUE]
                  /\ refcall' = [refcall EXCEPT ![p] = [c EXCEPT !.pc = "credit"]]
             ELSE /\ db_referrals' = [db_referrals EXCEPT ![c.user].plays = c.plays]
                  /\ refcall' = [refcall EXCEPT ![p] = RefDone(c, "counted")]
        /\ UNCHANGED << mem_referrals, ledgerVars >>

\* in-memory branch: read, increment and mark without an await in between
RefMemStep(p) ==
    LET c == refcall[p]
    IN  /\ c.pc = "read"
        /\ ~db_pool
        /\ IF c.user \in DOMAIN mem_referrals
              /\ ~RefAlreadyRewarded(mem_referrals[c.user])
           THEN LET plays == mem_referrals[c.user].plays + 1
                IN  IF RefThresholdReached(plays)
                    THEN /\ mem_referrals' = [mem_referrals EXCEPT
                                ![c.user].plays = plays, ![c.user].rewarded = TRUE]
                         /\ refcall' = [refcall EXCEPT ![p] =
                                [c EXCEPT !.pc = "credit", !.plays = plays,
                                          !.inviter = mem_referrals[c.user].inviter]]
                    ELSE /\ mem_referrals' = [mem_referrals EXCEPT ![c.user].plays = plays]
                         /\ refcall' = [refcall EXCEPT ![p] = RefDone(c, "counted")]
           ELSE /\ refcall' = [refcall EXCEPT ![p] = RefDone(c, IF c.user \in DOMAIN mem_referrals
                                   THEN "rewarded" ELSE "skipped")]
                /\ UNCHANGED mem_referrals
        /\ UNCHANGED << db_referrals, ledgerVars >>

\* await change_user_virtual(inviter, 3)
RefCredit(p) ==
    LET c == refcall[p]
    IN  /\ c.pc = "credit"
        /\ \E f \in DbFaults :
             LET o == change_user_virtual(db_users, mem_users, c.inviter, REF_BONUS, f)
             IN  /\ db_users' = o.db
                 /\ mem_users' = o.mem
        /\ refcall' = [refcall EXCEPT ![p] = RefDone(c, "credited")]
        /\ UNCHANGED << db_referrals, mem_referrals >>

\* the call returns to start_game_flow
RefReturn(p) ==
    /\ refcall[p].pc = "done"
    /\ refcall' = [refcall EXCEPT ![p] = IdleRef]

-----------------------------------------------------------------------------
(* Referrals on their own: visits through cmd_start, and the
   increment_referred_play calls that games make for their player *)

RefInit ==
    /\ db_pool \in BOOLEAN
    /\ InitTables

RefOthers ==
    UNCHANGED << db_pool, banVars, queueVars, game_locks, delivered, game, worker,
                 payVars >>

\* sequential: a call starts only when no other call is in progress
RefNext(sequential) ==
    \/ /\ \E u \in Users, i \in Users \cup {"none"} : CmdStart(u, i)
       /\ UNCHANGED refcall /\ RefOthers
    \/ /\ \E p \in Procs, u \in Users :
            /\ sequential => \A q \in Procs : refcall[q].pc = "idle"
            /\ RefInvoke(p, u)
       /\ UNCHANGED << ledgerVars, refVars >> /\ RefOthers
    \/ \E p \in Procs : RefDbRead(p) /\ RefOthers
    \/ \E p \in Procs : RefDbWrite(p) /\ RefOthers
    \/ \E p \in Procs : RefMemStep(p) /\ RefOthers
    \/ \E p \in Procs : RefCredit(p) /\ RefOthers
    \/ /\ \E p \in Procs : RefReturn(p)
       /\ UNCHANGED << ledgerVars, refVars >> /\ RefOthers

RefSeqSpec == RefInit /\ [][RefNext(TRUE)]_vars

RefRaceSpec == RefInit /\ [][RefNext(FALSE)]_vars

\* the link of a referred account, in the store the process uses
Links == IF db_pool THEN db_referrals ELSE mem_referrals

RewardedLinks(i) == {r \in DOMAIN Links : Links[r].inviter = i /\ Links[r].rewarded}

\* calls that have marked a link rewarded and not yet credited its inviter
CreditsInFlight(i) == {p \in Procs : refcall[p].pc = "credit" /\ refcall[p].inviter = i}

CreditsDue(i) == Cardinality(RewardedLinks(i)) - Cardinality(CreditsInFlight(i))

\* C3: with sequential increment_referred_play calls, an inviter's balance
\* holds exactly one +3 for each rewarded link whose rewarding call finished:
\* no store holds more, whatever the number of later calls, and each credit
\* landed in a store
ReferralCreditedOnce ==
    \A i \in Users :
        /\ DbVirtual(db_users, i) <= REF_BONUS * CreditsDue(i)
        /\ MemVirtual(mem_users, i) <= REF_BONUS * CreditsDue(i)
        /\ DbVirtual(db_users, i) + MemVirtual(mem_users, i) >= REF_BONUS * CreditsDue(i)

ReferralCreditedOnceWitness ==
    \E r \in DOMAIN Links :
        /\ Links[r].rewarded
        /\ refcall["g1"].pc = "done" /\ refcall["g1"].user = r
        /\ refcall["g1"].path = "rewarded"
        /\ DbVirtual(db_users, Links[r].inviter)
             + MemVirtual(mem_users, Links[r].inviter) = REF_BONUS

\* C17: register_ref_visit called in any reachable state, with any referred
\* account and any inviter, writes nothing and returns False when the
\* referred account has a link, and otherwise creates the link with plays 0
\* and rewarded false and returns True (on the storage branch an INSERT that
\* raises writes nothing and returns False).  No account has a link in both
\* stores, a link is never removed and its inviter never changes.
OneLinkPerReferred ==
    /\ [](/\ DOMAIN db_referrals \cap DOMAIN mem_referrals = {}
          /\ \A r \in Users, i \in Users, ok \in DbUp :
                LET o == register_ref_visit(db_referrals, mem_referrals, r, i, ok)
                    after == IF db_pool THEN o.db ELSE o.mem
                IN  IF r \in DOMAIN Links
                    THEN /\ o.ret = FALSE
                         /\ o.db = db_referrals
                         /\ o.mem = mem_referrals
                    ELSE \/ /\ db_pool /\ ~ok
                            /\ o.ret = FALSE
                            /\ o.db = db_referrals
                            /\ o.mem = mem_referrals
                         \/ /\ o.ret = TRUE
                            /\ DOMAIN after = DOMAIN Links \cup {r}
                            /\ after[r] = [inviter |-> i, plays |-> 0, rewarded |-> FALSE]
                            /\ \A x \in DOMAIN Links : after[x] = Links[x])
    /\ [][\A r \in DOMAIN Links :
            /\ r \in DOMAIN Links'
            /\ Links'[r].inviter = Links[r].inviter]_vars

\* u2 came through u1's link and has played since; u1 came through u2's
OneLinkPerReferredWitness ==
    /\ DOMAIN Links = Users
    /\ Links["u2"].inviter = "u1"
    /\ Links["u2"].plays > 0
    /\ Links["u1"].inviter = "u2"

\* C19: a Ledger or Referral operation whose storage round trip raises
\* still takes effect in the in-memory mirror: ensure_user,
\* change_user_virtual, set_user_virtual, set_user_free_next and
\* add_user_spent_real leave their result in bot._mem_users,
\* register_ref_visit leaves the new link in bot._mem_referrals, and an
\* increment_referred_play whose UPDATE raised leaves its count there.
DegradedModeFallsBack ==
    /\ [](db_pool =>
           \A u \in Users :
              /\ u \in DOMAIN ensure_user(db_users, mem_users, u, FALSE).mem
              /\ change_user_virtual(db_users, mem_users, u, 1, "fail").mem[u].virtual_stars
                    = MemVirtual(mem_users, u) + 1
              /\ set_user_virtual(db_users, mem_users, u, 1, "fail").mem[u].virtual_stars = 1
              /\ set_user_free_next(db_users, mem_users, u, 1, FALSE).mem[u].free_next_at = 1
              /\ add_user_spent_real(db_users, mem_users, u, 1, FALSE).mem[u].spent_real
                    = MemSpent(mem_users, u) + 1
              /\ \A i \in Users \ {u} :
                    u \notin DOMAIN db_referrals =>
                       u \in DOMAIN register_ref_visit(db_referrals, mem_referrals,
                                                      u, i, FALSE).mem)
    /\ [][\A p \in Procs :
            (/\ refcall[p].pc = "write"
             /\ refcall'[p].pc = "done"
             /\ refcall'[p].path = "error")
            => /\ refcall[p].user \in DOMAIN mem_referrals'
               /\ mem_referrals'[refcall[p].user].plays = refcall[p].plays]_vars

\* C4: two increment_referred_play calls that interleave at their storage
\* round trips on a link at plays = 4 credit the inviter +3 once, not twice:
\* under any interleaving no store holds more than +3 for each rewarded link
\* whose credit was made
RaceCreditsOnce ==
    \A i \in Users :
        /\ DbVirtual(db_users, i) <= REF_BONUS * CreditsDue(i)
        /\ MemVirtual(mem_users, i) <= REF_BONUS * CreditsDue(i)

-----------------------------------------------------------------------------
(* pending_gifts: the queue written by the bot and drained by the workers *)

GIFT_NORMAL == 15
GIFT_PREMIUM == 25
BATCH_SIZE == 5

\* GIFT_VALUES["premium"] if premium else GIFT_VALUES["normal"]
GiftCost(premium) == IF premium THEN GIFT_PREMIUM ELSE GIFT_NORMAL

GiftRow(user, amount, premium) ==
    [user_id |-> user, amount_stars |-> amount, premium |-> premium,
     status |-> "pending"]

\* add_pending_gift: (db, mem) after one call; the INSERT, or the in-memory
\* list when there is no pool or the INSERT raised
add_pending_gift(db, mem, user, amount, premium, ok) ==
    IF ok
    THEN [db |-> Append(db, GiftRow(user, amount, premium)), mem |-> mem]
    ELSE [db |-> db, mem |-> Append(mem, GiftRow(user, amount, premium))]

RECURSIVE Take(_, _)
Take(seq, n) == IF n = 0 \/ seq = << >> THEN << >>
                ELSE << Head(seq) >> \o Take(Tail(seq), n - 1)

\* a query that claims every row that is not being processed
ClaimableMutant(row) == row.status # "processing"

\* a query that takes the rows some worker left in 'processing' as well
ClaimableStale(row) == row.status \in {"pending", "processing"}

\* WHERE status = 'pending'
Claimable(row) == row.status = "pending"

\* a plain SELECT, which takes no row lock into account
RowFreeMutant(id, w) == TRUE

\* FOR UPDATE SKIP LOCKED: a row locked by another transaction is passed over
RowFree(id, w) == id \notin DOMAIN row_lock

\* a SELECT without its LIMIT
SelectIdsUnlimited(w, limit) ==
    SelectSeq([i \in 1 .. Len(pending_gifts) |-> i],
              LAMBDA i : Claimable(pending_gifts[i]) /\ RowFree(i, w))

\* the rows the SELECT of fetch_and_lock_pending returns: ORDER BY created_at,
\* LIMIT $1
SelectIds(w, limit) ==
    Take(SelectSeq([i \in 1 .. Len(pending_gifts) |-> i],
                   LAMBDA i : Claimable(pending_gifts[i]) /\ RowFree(i, w)),
         limit)

Range(seq) == {seq[i] : i \in 1 .. Len(seq)}

\* fetch_and_lock_pending, up to its SELECT: the rows are locked by the open
\* transaction.  No rows: the call returns [] and the loop sleeps; an
\* exception reaches the loop's handler, which sleeps as well.
WorkerSelect(w) ==
    /\ worker[w].pc = "poll"
    /\ \E ok \in {TRUE, FALSE} :
         LET ids == IF ok THEN SelectIds(w, BATCH_SIZE) ELSE << >>
         IN  IF ids = << >>
             THEN UNCHANGED << worker, row_lock >>
             ELSE /\ worker' = [worker EXCEPT ![w] =
                                  [pc |-> "locked", batch |-> ids, i |-> 0, ok |-> FALSE]]
                  /\ row_lock' = [x \in DOMAIN row_lock \cup Range(ids) |->
                                    IF x \in Range(ids) THEN w ELSE row_lock[x]]
    /\ UNCHANGED << pending_gifts, mem_pending_gifts, bot_stars, delivered >>

Unlock(w) == [x \in {y \in DOMAIN row_lock : row_lock[y] # w} |-> row_lock[x]]

\* the UPDATE to 'processing' and the commit; if either raises the
\* transaction rolls back and the loop's handler sleeps
WorkerCommit(w) ==
    /\ worker[w].pc = "locked"
    /\ \E ok \in {TRUE, FALSE} :
         IF ok
         THEN /\ pending_gifts' =
                   [i \in 1 .. Len(pending_gifts) |->
                      IF i \in Range(worker[w].batch)
                      THEN [pending_gifts[i] EXCEPT !.status = "processing"]
                      ELSE pending_gifts[i]]
              /\ worker' = [worker EXCEPT ![w].pc = "purchase", ![w].i = 1]
         ELSE /\ UNCHANGED pending_gifts
              /\ worker' = [worker EXCEPT ![w] = IdleWorker]
    /\ row_lock' = Unlock(w)
    /\ UNCHANGED << mem_pending_gifts, bot_stars, delivered >>

\* the task the loop `for t in tasks` is at
CurrentId(w) == worker[w].batch[worker[w].i]

\* the loop moves to its next task, or sleeps and polls again after the last
NextTask(w) ==
    IF worker[w].i < Len(worker[w].batch)
    THEN [worker[w] EXCEPT !.pc = "purchase", !.i = @ + 1, !.ok = FALSE]
    ELSE IdleWorker

\* ok = await purchase_and_send(...): True when the gift was bought and
\* delivered; False for no catalog entry of that price or a failed call; a
\* catalog lookup that raises goes to the task's `except` branch
WorkerPurchase(w) ==
    /\ worker[w].pc = "purchase"
    /\ \E r \in {"true", "false", "raise"} :
         CASE r = "true" ->
                /\ delivered' = [delivered EXCEPT
                                   ![pending_gifts[CurrentId(w)].user_id] = @ + 1]
                /\ worker' = [worker EXCEPT ![w].pc = "mark_sent", ![w].ok = TRUE]
           [] r = "false" ->
                /\ UNCHANGED delivered
                /\ worker' = [worker EXCEPT ![w].pc = "mark_failed"]
           [] OTHER ->
                /\ UNCHANGED delivered
                /\ worker' = [worker EXCEPT ![w].pc = "except_mark"]
    /\ UNCHANGED << pending_gifts, mem_pending_gifts, bot_stars, row_lock >>

SetStatus(id, status) == [pending_gifts EXCEPT ![id].status = status]

\* mark_sent; an exception goes to the task's `except` branch
WorkerMarkSent(w) ==
    /\ worker[w].pc = "mark_sent"
    /\ \E ok \in {TRUE, FALSE} :
         IF ok
         THEN /\ pending_gifts' = SetStatus(CurrentId(w), "sent")
              /\ worker' = [worker EXCEPT ![w] = NextTask(w)]
         ELSE /\ UNCHANGED pending_gifts
              /\ worker' = [worker EXCEPT ![w].pc = "except_mark"]
    /\ UNCHANGED << mem_pending_gifts, bot_stars, row_lock, delivered >>

\* mark_failed after a failed purchase; an exception goes to the `except`
\* branch
WorkerMarkFailed(w) ==
    /\ worker[w].pc = "mark_failed"
    /\ \E ok \in {TRUE, FALSE} :
         IF ok
         THEN /\ pending_gifts' = SetStatus(CurrentId(w), "failed")
              /\ worker' = [worker EXCEPT ![w].pc = "refund"]
         ELSE /\ UNCHANGED pending_gifts
              /\ worker' = [worker EXCEPT ![w].pc = "except_mark"]
    /\ UNCHANGED << mem_pending_gifts, bot_stars, row_lock, delivered >>

\* mark_failed in the `except` branch; an exception here leaves the `for`
\* loop and reaches the loop's handler, which sleeps and polls again
WorkerExceptMark(w) ==
    /\ worker[w].pc = "except_mark"
    /\ \E ok \in {TRUE, FALSE} :
         IF ok
         THEN /\ pending_gifts' = SetStatus(CurrentId(w), "failed")
              /\ worker' = [worker EXCEPT ![w].pc = "refund"]
         ELSE /\ UNCHANGED pending_gifts
              /\ worker' = [worker EXCEPT ![w] = IdleWorker]
    /\ UNCHANGED << mem_pending_gifts, bot_stars, row_lock, delivered >>

\* refund_bot_stars: value = GREATEST(value + amount, 0) on the bot_stars row
refund_bot_stars(value, amount) == Greatest(value + amount, 0)

\* the refund inside try/except: an exception is logged and the loop goes on
WorkerRefund(w) ==
    /\ worker[w].pc = "refund"
    /\ \E ok \in {TRUE, FALSE} :
         IF ok
         THEN bot_stars' = refund_bot_stars(bot_stars,
                               pending_gifts[CurrentId(w)].amount_stars)
         ELSE UNCHANGED bot_stars
    /\ worker' = [worker EXCEPT ![w] = NextTask(w)]
    /\ UNCHANGED << pending_gifts, mem_pending_gifts, row_lock, delivered >>

-----------------------------------------------------------------------------
(* The queue on its own: wins enqueue gifts, workers drain the table *)

\* start_game_flow enqueues the gift of a win it could not deliver itself
Enqueue(user, premium) ==
    /\ Len(pending_gifts) + Len(mem_pending_gifts) < MaxTasks
    /\ \E ok \in DbUp :
         LET o == add_pending_gift(pending_gifts, mem_pending_gifts, user,
                                   GiftCost(premium), premium, ok)
         IN  /\ pending_gifts' = o.db
             /\ mem_pending_gifts' = o.mem
    /\ UNCHANGED << row_lock, bot_stars, delivered, worker >>

\* the workers need DATABASE_URL, so the queue is studied with a pool
QueueInit ==
    /\ db_pool = TRUE
    /\ InitTables

QueueOthers ==
    UNCHANGED << db_pool, ledgerVars, refVars, banVars, game_locks, game, refcall,
                 payVars >>

QueueNext ==
    \/ \E u \in Users, premium \in BOOLEAN : Enqueue(u, premium) /\ QueueOthers
    \/ \E w \in Workers : WorkerSelect(w) /\ QueueOthers
    \/ \E w \in Workers : WorkerCommit(w) /\ QueueOthers
    \/ \E w \in Workers : WorkerPurchase(w) /\ QueueOthers
    \/ \E w \in Workers : WorkerMarkSent(w) /\ QueueOthers
    \/ \E w \in Workers : WorkerMarkFailed(w) /\ QueueOthers
    \/ \E w \in Workers : WorkerExceptMark(w) /\ QueueOthers
    \/ \E w \in Workers : WorkerRefund(w) /\ QueueOthers

QueueSpec == QueueInit /\ [][QueueNext]_vars

\* every step of worker w
WorkerSteps(w) ==
    \/ WorkerSelect(w) \/ WorkerCommit(w) \/ WorkerPurchase(w) \/ WorkerMarkSent(w)
    \/ WorkerMarkFailed(w) \/ WorkerExceptMark(w) \/ WorkerRefund(w)

\* the queue with workers that keep running: no worker stops for ever at a
\* step it can take
QueueFairSpec ==
    /\ QueueInit
    /\ [][QueueNext]_vars
    /\ \A w \in Workers : WF_vars(WorkerSteps(w) /\ QueueOthers)

StatusStep(from, to) ==
    \/ from = to
    \/ from = "pending" /\ to = "processing"
    \/ from = "processing" /\ to \in {"sent", "failed"}

\* C5: in every step, under any interleaving of enqueue, claim, mark_sent and
\* mark_failed by the workers, no row is removed and each row's status stays
\* or moves along pending -> processing -> {sent | failed}
QueueMonotone ==
    [][ /\ Len(pending_gifts') >= Len(pending_gifts)
        /\ \A i \in 1 .. Len(pending_gifts) :
             StatusStep(pending_gifts[i].status, pending_gifts'[i].status) ]_vars

QueueMonotoneWitness ==
    /\ \E i \in 1 .. Len(pending_gifts) : pending_gifts[i].status = "sent"
    /\ \E i \in 1 .. Len(pending_gifts) : pending_gifts[i].status = "failed"
    /\ \A w \in Workers : worker[w].pc = "poll"

\* rows whose mark_failed is done and whose refund step is still to run
AwaitingRefund ==
    {worker[w].batch[worker[w].i] : w \in {x \in Workers : worker[x].pc = "refund"}}

RECURSIVE SumAmounts(_)
SumAmounts(ids) ==
    IF ids = {} THEN 0
    ELSE LET i == CHOOSE x \in ids : TRUE
         IN  pending_gifts[i].amount_stars + SumAmounts(ids \ {i})

FailedIds == {i \in 1 .. Len(pending_gifts) : pending_gifts[i].status = "failed"}

\* C6: the pool (bot_state 'bot_stars') holds exactly the amounts of the
\* failed rows, each once: every failed row past its refund step was
\* credited, also when the refund step raised, and none was credited twice
RefundConservation ==
    bot_stars = SumAmounts(FailedIds \ AwaitingRefund)

\* the worker process dies between the commit of its claim and the end of
\* its batch; i stays at the first task whose mark was not written
WorkerCrash(w) ==
    /\ worker[w].pc \in {"purchase", "mark_sent", "mark_failed", "except_mark", "refund"}
    /\ worker' = [worker EXCEPT ![w].pc = "crashed",
                                ![w].i = IF worker[w].pc = "refund" THEN @ + 1 ELSE @]
    /\ UNCHANGED << pending_gifts, mem_pending_gifts, bot_stars, row_lock, delivered >>

\* the queue with workers that may die
CrashNext ==
    \/ QueueNext
    \/ \E w \in Workers : WorkerCrash(w) /\ QueueOthers

CrashSpec == QueueInit /\ [][CrashNext]_vars

\* the rows a dead worker had claimed and not marked
Orphans(w) ==
    IF worker[w].pc = "crashed"
    THEN {worker[w].batch[k] : k \in worker[w].i .. Len(worker[w].batch)}
    ELSE {}

\* C21: the rows a worker had claimed and not yet marked when it died are in
\* status processing in every later state: no other worker claims them and
\* no step returns them to pending; this holds for each such row of its
\* batch.
CrashLeavesProcessing ==
    \A w \in Workers : \A id \in Orphans(w) :
       /\ pending_gifts[id].status = "processing"
       /\ \A x \in Workers \ {w} : id \notin Range(worker[x].batch)

\* a worker died with its whole batch of two unmarked, and the other worker
\* has since handled nothing of it and polls
CrashLeavesProcessingWitness ==
    \E w \in Workers :
       /\ worker[w].pc = "crashed"
       /\ Cardinality(Orphans(w)) = MaxTasks
       /\ \A x \in Workers \ {w} : worker[x].pc = "poll"

\* worker w writes status `to` on the task it is at
Marks(w, to) ==
    /\ worker[w].pc \in {"mark_sent", "mark_failed", "except_mark"}
    /\ pending_gifts[CurrentId(w)].status # to
    /\ pending_gifts'[CurrentId(w)].status = to

\* worker w credits the pool for the task it is at
Refunds(w) == worker[w].pc = "refund" /\ bot_stars' # bot_stars

\* C22: a task is marked sent only by a worker whose purchase_and_send
\* returned True, and it is marked failed and refunded only by a worker whose
\* purchase_and_send did not deliver the gift, also when mark_sent or
\* mark_failed raised: no delivered task is marked failed or refunded.
FinalizationMatchesDelivery ==
    [][\A w \in Workers :
         /\ Marks(w, "sent") => worker[w].ok
         /\ Marks(w, "failed") => ~worker[w].ok
         /\ Refunds(w) => ~worker[w].ok]_vars

\* the rows a worker holds: locked by its SELECT, or returned to its loop
Held(w) == Range(worker[w].batch)

Final == {"sent", "failed"}

\* C20: with workers that keep running, every row written by
\* add_pending_gift, in the pending_gifts table or in the in-memory list,
\* eventually has status sent or failed.
EveryTaskFinalized ==
    \A i \in 1 .. MaxTasks :
       /\ [](i <= Len(pending_gifts) =>
             <>(i <= Len(pending_gifts) /\ pending_gifts[i].status \in Final))
       /\ [](i <= Len(mem_pending_gifts) =>
             <>(i <= Len(mem_pending_gifts) /\ mem_pending_gifts[i].status \in Final))

\* C7: the rows fetch_and_lock_pending hands to different workers are
\* disjoint, and each held row was taken out of 'pending' for its holder
ClaimsDisjoint ==
    \A w1, w2 \in Workers : w1 # w2 => Held(w1) \cap Held(w2) = {}

ClaimsDisjointWitness ==
    /\ worker["w1"].pc = "purchase"
    /\ worker["w2"].pc = "purchase"

-----------------------------------------------------------------------------
(* The game flow: start_game_flow *)

\* BUTTONS: key -> (count, virtual_cost, premium_flag)
BUTTONS ==
    [ p6    |-> [cnt |-> 6, cost |-> 0,  premium |-> FALSE],
      p5    |-> [cnt |-> 5, cost |-> 1,  premium |-> FALSE],
      p4    |-> [cnt |-> 4, cost |-> 2,  premium |-> FALSE],
      p3    |-> [cnt |-> 3, cost |-> 4,  premium |-> FALSE],
      p2    |-> [cnt |-> 2, cost |-> 6,  premium |-> FALSE],
      p1    |-> [cnt |-> 1, cost |-> 10, premium |-> FALSE],
      prem1 |-> [cnt |-> 1, cost |-> 15, premium |-> TRUE] ]

DICE_MAX == 6
HIT_MIN == 4

\* the values a dice message is given here
DiceValues == 1 .. DICE_MAX

\* `if int(v) >= 4`
IsHitMutant(v) == v > HIT_MIN

IsHit(v) == v >= HIT_MIN

\* the loop `for msg in messages` that counts hits
RECURSIVE CountHits(_)
CountHits(results) ==
    IF results = << >> THEN 0
    ELSE (IF IsHit(Head(results)) THEN 1 ELSE 0) + CountHits(Tail(results))

\* a classification that asks for one hit only
WinMutant(results, hits) == hits > 0

\* win = len(results) > 0 and hits == len(results)
Win(results, hits) == Len(results) > 0 /\ hits = Len(results)

\* a lock test that never finds the chat busy
LockHeldMutant(chat) == FALSE

\* one lock for the whole bot instead of one per chat
LockHeldAnywhere(chat) == game_locks # {}

\* game_locks.get(chat_id)
LockHeld(chat) == chat \in game_locks

\* a gift priced as a normal one whatever the tier
GiftAmountMutant(premium) == GIFT_NORMAL

\* gift_cost in start_game_flow
GiftAmount(premium) == GiftCost(premium)

\* an inc_user_plays that counts one play whatever cnt is
inc_user_plays_one(db, mem, u, cnt, ok) ==
    IF ok
    THEN [db |-> IF u \in DOMAIN db
                 THEN [db EXCEPT ![u].plays_total = @ + 1]
                 ELSE Put(db, u, [DefaultRow EXCEPT !.plays_total = 1]),
          mem |-> mem]
    ELSE [db |-> db,
          mem |-> [MemSetDefault(mem, u) EXCEPT ![u].plays_total = @ + 1]]

\* inc_user_plays: (db, mem) after one call
inc_user_plays(db, mem, u, cnt, ok) ==
    IF ok
    THEN [db |-> IF u \in DOMAIN db
                 THEN [db EXCEPT ![u].plays_total = @ + cnt]
                 ELSE Put(db, u, [DefaultRow EXCEPT !.plays_total = cnt]),
          mem |-> mem]
    ELSE [db |-> db,
          mem |-> [MemSetDefault(mem, u) EXCEPT ![u].plays_total = @ + cnt]]

\* play_callback or on_successful_payment calls start_game_flow
GameInvoke(p, chat, user, key) ==
    /\ game[p].pc = "idle"
    /\ game' = [game EXCEPT ![p] =
                  [IdleGame EXCEPT !.pc = "begin", !.chat = chat, !.user = user,
                                   !.count = BUTTONS[key].cnt,
                                   !.premium = BUTTONS[key].premium]]
    /\ UNCHANGED << game_locks, ledgerVars, refVars, refcall, queueVars, delivered >>

\* the invocations between the lock and its release
Running(p) == game[p].pc \notin {"idle", "begin", "done"}

\* await is_banned, then the lock test and the lock with no await in between
GameBegin(p) ==
    /\ game[p].pc = "begin"
    /\ \E b \in {is_banned(game[p].user, ok) : ok \in DbUp} :
         IF b
         THEN /\ game' = [game EXCEPT ![p].pc = "done", ![p].ret = "banned"]
              /\ UNCHANGED game_locks
         ELSE IF LockHeld(game[p].chat)
         THEN /\ game' = [game EXCEPT ![p].pc = "done", ![p].ret = "busy"]
              /\ UNCHANGED game_locks
         ELSE /\ game' = [game EXCEPT ![p].pc = IF game[p].count = 0 THEN "wait" ELSE "throw"]
              /\ game_locks' = game_locks \cup {game[p].chat}
    /\ UNCHANGED << ledgerVars, refVars, refcall, queueVars, delivered >>

AfterThrow(f) == IF f.i + 1 = f.count THEN "wait" ELSE "throw"

\* one send_dice that succeeds with value v, and the 0.5 s sleep after it
GameThrow(p, v) ==
    /\ game[p].pc = "throw"
    /\ game' = [game EXCEPT ![p].results = Append(@, v),
                            ![p].i = @ + 1,
                            ![p].pc = AfterThrow(game[p])]
    /\ UNCHANGED << game_locks, ledgerVars, refVars, refcall, queueVars, delivered >>

\* a failed send_dice that leaves the loop
GameThrowFailBreaks(p) ==
    /\ game[p].pc = "throw"
    /\ game' = [game EXCEPT ![p].i = @ + 1, ![p].pc = "wait"]
    /\ UNCHANGED << game_locks, ledgerVars, refVars, refcall, queueVars, delivered >>

\* one send_dice that raises: logged, the loop continues
GameThrowFail(p) ==
    /\ game[p].pc = "throw"
    /\ game' = [game EXCEPT ![p].i = @ + 1, ![p].pc = AfterThrow(game[p])]
    /\ UNCHANGED << game_locks, ledgerVars, refVars, refcall, queueVars, delivered >>

\* the wait after the last throw, then the count of hits
GameWait(p) ==
    /\ game[p].pc = "wait"
    /\ game' = [game EXCEPT ![p].hits = CountHits(game[p].results),
                            ![p].pc = "plays"]
    /\ UNCHANGED << game_locks, ledgerVars, refVars, refcall, queueVars, delivered >>

\* await inc_user_plays(user_id, len(results))
GamePlays(p) ==
    /\ game[p].pc = "plays"
    /\ \E ok \in DbUp :
         LET o == inc_user_plays(db_users, mem_users, game[p].user,
                                 Len(game[p].results), ok)
         IN  /\ db_users' = o.db
             /\ mem_users' = o.mem
    /\ game' = [game EXCEPT ![p].pc = "ref"]
    /\ UNCHANGED << game_locks, refVars, refcall, queueVars, delivered >>

\* await increment_referred_play(user_id): the call is made
GameRef(p) ==
    /\ game[p].pc = "ref"
    /\ RefInvoke(p, game[p].user)
    /\ game' = [game EXCEPT ![p].pc = "ref_wait"]
    /\ UNCHANGED << game_locks, ledgerVars, refVars, queueVars, delivered >>

\* increment_referred_play returned; inc_stats; win is computed and the
\* branch taken (the hits summary is sent on a win)
GameClassify(p) ==
    /\ game[p].pc = "ref_wait"
    /\ RefReturn(p)
    /\ LET w == Win(game[p].results, game[p].hits)
       IN  game' = [game EXCEPT ![p].win = w,
                                ![p].pc = IF w THEN "gift" ELSE "summary"]
    /\ UNCHANGED << game_locks, ledgerVars, refVars, queueVars, delivered >>

\* a win branch that queues the gift it has just sent as well
GameTrySendAlsoQueues(p) ==
    /\ game[p].pc = "gift"
    /\ \E enough \in BOOLEAN, sent \in BOOLEAN :
         /\ delivered' = IF enough /\ sent
                          THEN [delivered EXCEPT ![game[p].user] = @ + 1]
                          ELSE delivered
         /\ game' = [game EXCEPT ![p].pc = "enqueue"]
    /\ UNCHANGED << game_locks, ledgerVars, refVars, refcall, queueVars >>

\* win: get_real_bot_stars, and try_send_real_gift when the bot can pay;
\* a gift sent now is delivered, anything else goes to the queue
GameTrySend(p) ==
    /\ game[p].pc = "gift"
    /\ \E enough \in BOOLEAN, sent \in BOOLEAN :
         IF enough /\ sent
         THEN /\ delivered' = [delivered EXCEPT ![game[p].user] = @ + 1]
              /\ game' = [game EXCEPT ![p].pc = "menu"]
         ELSE /\ UNCHANGED delivered
              /\ game' = [game EXCEPT ![p].pc = "enqueue"]
    /\ UNCHANGED << game_locks, ledgerVars, refVars, refcall, queueVars >>

\* await add_pending_gift(user_id, gift_cost, premium=premium)
GameEnqueue(p) ==
    /\ game[p].pc = "enqueue"
    /\ \E ok \in DbUp :
         LET o == add_pending_gift(pending_gifts, mem_pending_gifts, game[p].user,
                                   GiftAmount(game[p].premium), game[p].premium, ok)
         IN  /\ pending_gifts' = o.db
             /\ mem_pending_gifts' = o.mem
    /\ game' = [game EXCEPT ![p].pc = "menu"]
    /\ UNCHANGED << game_locks, ledgerVars, refVars, refcall, row_lock, bot_stars,
                    delivered >>

\* no win: the results summary, the follow-up, the sleeps
GameSummary(p) ==
    /\ game[p].pc = "summary"
    /\ game' = [game EXCEPT ![p].pc = "menu"]
    /\ UNCHANGED << game_locks, ledgerVars, refVars, refcall, queueVars, delivered >>

\* get_user_virtual for the main menu, the group summary, the return and the
\* `finally` that releases the lock
GameMenu(p) ==
    /\ game[p].pc = "menu"
    /\ \E ok \in DbUp :
         LET o == get_user_virtual(db_users, mem_users, game[p].user, ok)
         IN  /\ db_users' = o.db
             /\ mem_users' = o.mem
    /\ game' = [game EXCEPT ![p].pc = "done",
                            ![p].ret = IF game[p].win THEN "win" ELSE "ok"]
    /\ game_locks' = game_locks \ {game[p].chat}
    /\ UNCHANGED << refVars, refcall, queueVars, delivered >>

\* the caller goes on after start_game_flow returned
GameReturn(p) ==
    /\ game[p].pc = "done"
    /\ game' = [game EXCEPT ![p] = IdleGame]
    /\ UNCHANGED << game_locks, ledgerVars, refVars, refcall, queueVars, delivered >>

\* the steps of increment_referred_play inside a game
GameRefStep(p) ==
    /\ RefDbRead(p) \/ RefDbWrite(p) \/ RefMemStep(p) \/ RefCredit(p)
    /\ UNCHANGED << game, game_locks, queueVars, delivered >>

GameOthers == UNCHANGED << db_pool, banVars, worker, payVars >>

\* the steps of the invocations in Ps, with dice in Dice
GameSteps(Ps, Dice) ==
    \/ \E p \in Ps : GameBegin(p) /\ GameOthers
    \/ \E p \in Ps, v \in Dice : GameThrow(p, v) /\ GameOthers
    \/ \E p \in Ps : GameThrowFail(p) /\ GameOthers
    \/ \E p \in Ps : GameWait(p) /\ GameOthers
    \/ \E p \in Ps : GamePlays(p) /\ GameOthers
    \/ \E p \in Ps : GameRef(p) /\ GameOthers
    \/ \E p \in Ps : GameRefStep(p) /\ GameOthers
    \/ \E p \in Ps : GameClassify(p) /\ GameOthers
    \/ \E p \in Ps : GameTrySend(p) /\ GameOthers
    \/ \E p \in Ps : GameEnqueue(p) /\ GameOthers
    \/ \E p \in Ps : GameSummary(p) /\ GameOthers
    \/ \E p \in Ps : GameMenu(p) /\ GameOthers
    \/ \E p \in Ps : GameReturn(p) /\ GameOthers

-----------------------------------------------------------------------------
(* The first game after start-up, for every button and every dice value *)

\* after init_db, with DATABASE_URL set or not as pools allows
GameInit(pools) ==
    /\ db_pool \in pools
    /\ db_users = EmptyTable
    /\ mem_users = EmptyTable
    /\ db_referrals = EmptyTable
    /\ mem_referrals = EmptyTable
    /\ db_banned = {}
    /\ mem_banned = {}
    /\ pending_gifts = << >>
    /\ mem_pending_gifts = << >>
    /\ row_lock = EmptyTable
    /\ bot_stars = 0
    /\ game_locks = {}
    /\ delivered = [u \in Users |-> 0]
    /\ game = [p \in Procs |-> IdleGame]
    /\ refcall = [p \in Procs |-> IdleRef]
    /\ worker = [w \in Workers |-> IdleWorker]
    /\ now = 0
    /\ invoice_map = EmptyTable
    /\ invoices = << >>
    /\ call = [p \in Procs |-> IdleCall]
    /\ free_runs = [u \in Users |-> << >>]
    /\ updates = 0
    /\ trial = IdleTrial
    /\ pace = IdlePace
    /\ chg = IdleChanges

\* nothing has been played yet
FirstGame ==
    /\ db_users = EmptyTable
    /\ mem_users = EmptyTable

OutcomeNext ==
    \/ /\ FirstGame
       /\ \E key \in DOMAIN BUTTONS : GameInvoke("g1", "u2", "u2", key)
       /\ GameOthers
    \/ GameSteps({"g1"}, DiceValues)

OutcomeSpec == GameInit(BOOLEAN) /\ [][OutcomeNext]_vars

-----------------------------------------------------------------------------
(* Interleaved games: a player in their private chat or in the group *)

PlaysTotal(u) ==
    (IF u \in DOMAIN db_users THEN db_users[u].plays_total ELSE 0)
    + (IF u \in DOMAIN mem_users THEN mem_users[u].plays_total ELSE 0)

\* invocations of start_game_flow that have not returned to their caller
Active == {p \in Procs : game[p].pc # "idle"}

ShortButtons == {k \in DOMAIN BUTTONS : BUTTONS[k].cnt <= MaxThrows}

\* the dice values on either side of the hit threshold
EdgeDice == {HIT_MIN - 1, HIT_MIN}

SessionNext ==
    \/ /\ \E p \in Procs, u \in Users, key \in ShortButtons : \E c \in {u} \cup Groups :
            /\ PlaysTotal("u1") + PlaysTotal("u2") + Cardinality(Active) < MaxPlays
            /\ GameInvoke(p, c, u, key)
       /\ GameOthers
    \/ GameSteps(Procs, EdgeDice)

SessionSpec == GameInit({FALSE}) /\ [][SessionNext]_vars

\* another invocation holds the lock of p's chat
ChatBusy(p) ==
    \E q \in Procs \ {p} : Running(q) /\ game[q].chat = game[p].chat

\* p passes the lock test in this step
BeginStep(p) == game[p].pc = "begin" /\ game'[p].pc # "begin"

\* C1: single flight per conversation.  In every reachable state no two
\* invocations of start_game_flow are between the lock and its release in the
\* same chat, and game_locks holds exactly the chats that have one; an
\* invocation that reaches the lock test while another runs in its chat
\* returns "busy", and one that finds the chat free enters the game.
SingleFlight ==
    /\ [](/\ \A p, q \in Procs :
               (p # q /\ Running(p) /\ Running(q)) => game[p].chat # game[q].chat
          /\ game_locks = {game[p].chat : p \in {q \in Procs : Running(q)}})
    /\ [][\A p \in Procs :
            BeginStep(p) =>
               IF ChatBusy(p)
               THEN game'[p].pc = "done" /\ game'[p].ret = "busy"
               ELSE game'[p].pc \in {"throw", "wait"}]_vars

\* g2 was turned away while g1 plays in the same chat
SingleFlightWitness ==
    /\ Running("g1")
    /\ game["g2"].pc = "done"
    /\ game["g2"].ret = "busy"
    /\ game["g2"].chat = game["g1"].chat

\* C18: the lock is keyed by chat, not by account.  An invocation that
\* reaches the lock test while another account's game runs in the same chat
\* returns "busy"; one whose chat has no running game is never turned away
\* and enters the game, whatever runs in other chats, also for the same
\* account.
BusyKeyedByChat ==
    [][\A p \in Procs :
         BeginStep(p) =>
            /\ \A q \in Procs \ {p} :
                  (/\ Running(q)
                   /\ game[q].chat = game[p].chat
                   /\ game[q].user # game[p].user)
                  => game'[p].ret = "busy"
            /\ (\A q \in Procs \ {p} : Running(q) => game[q].chat # game[p].chat)
               => (game'[p].ret # "busy" /\ game'[p].pc \in {"throw", "wait"})]_vars

\* one account plays in two chats at the same time
BusyKeyedByChatWitness ==
    /\ Running("g1")
    /\ Running("g2")
    /\ game["g1"].user = game["g2"].user
    /\ game["g1"].chat # game["g2"].chat

-----------------------------------------------------------------------------
(* The outcome of a game and what it leaves in the queue *)

\* win has been computed and the branch taken
Classified(p) ==
    \/ game[p].pc \in {"gift", "enqueue", "summary", "menu"}
    \/ game[p].pc = "done" /\ game[p].ret \in {"win", "ok"}

\* start_game_flow returned (True, "win") and its caller has not gone on
ReturnedWin(p) == game[p].pc = "done" /\ game[p].ret = "win"

\* start_game_flow returned (True, "ok") and its caller has not gone on
ReturnedOk(p) == game[p].pc = "done" /\ game[p].ret = "ok"

\* the rows add_pending_gift has written, in the table and in the list
Enqueued == pending_gifts \o mem_pending_gifts

\* C8: outcome classification.  Once a game has classified its throws, for
\* every button, every dice value and every failed send_dice, it is a win
\* exactly when at least one dice message was sent and every value read is
\* 4 or more; the win branch is taken and "win" returned in that case only,
\* and every other game takes the loss branch and returns "ok".
OutcomeClassification ==
    \A p \in Procs :
       Classified(p) =>
          LET r == game[p].results
              allHit == Len(r) > 0 /\ \A i \in 1 .. Len(r) : r[i] >= 4
          IN  /\ game[p].win <=> allHit
              /\ game[p].pc \in {"gift", "enqueue"} => allHit
              /\ game[p].pc = "summary" => ~allHit
              /\ game[p].pc = "done" => (game[p].ret = "win" <=> allHit)

\* five throws asked for, one send_dice failed, the four values read all hit
OutcomeClassificationWitness ==
    /\ ReturnedWin("g1")
    /\ game["g1"].count = 5
    /\ Len(game["g1"].results) = 4
    /\ game["g1"].results[1] = 4
    /\ game["g1"].results[4] = 6

\* C9, as the specification states it: after every win exactly one row is
\* enqueued for the winner, pending, with 25 stars for the premium tier and
\* 15 for the ordinary one.
WinEnqueuesOne ==
    \A p \in Procs :
       ReturnedWin(p) =>
          Enqueued = << GiftRow(game[p].user,
                                IF game[p].premium THEN 25 ELSE 15,
                                game[p].premium) >>

\* C9, amended: after a win either the gift was sent at once by
\* try_send_real_gift and no row was written, or exactly one row was written
\* by add_pending_gift (into pending_gifts, or into the in-memory list when
\* there is no pool or the INSERT raised) for the winner, pending, with 25
\* stars for the premium tier and 15 for the ordinary one; never both.
WinDeliversOrEnqueuesOne ==
    \A p \in Procs :
       ReturnedWin(p) =>
          \/ /\ delivered[game[p].user] = 1
             /\ Enqueued = << >>
          \/ /\ delivered[game[p].user] = 0
             /\ Enqueued = << GiftRow(game[p].user,
                                      IF game[p].premium THEN 25 ELSE 15,
                                      game[p].premium) >>

\* a premium win whose gift went to the pending_gifts table
WinDeliversOrEnqueuesOneWitness ==
    /\ ReturnedWin("g1")
    /\ game["g1"].premium
    /\ Len(pending_gifts) = 1
    /\ delivered["u2"] = 0

\* a miss among the values read, or the throws are over and none was sent
LossSession(p) ==
    /\ game[p].pc \notin {"idle", "begin"}
    /\ \/ \E i \in 1 .. Len(game[p].results) : game[p].results[i] < 4
       \/ game[p].pc # "throw" /\ game[p].results = << >>

\* C10: a game with a miss, or with no dice message sent, never enqueues a
\* row and never sends a gift: no step of it changes pending_gifts, the
\* in-memory list or the gifts delivered, and it returns with all three as
\* they were when it began.
LossLeavesQueue ==
    /\ [][\A p \in Procs :
            (LossSession(p) \/ LossSession(p)') =>
               UNCHANGED << pending_gifts, mem_pending_gifts, delivered >>]_vars
    /\ [](\A p \in Procs :
            LossSession(p) =>
               /\ Enqueued = << >>
               /\ \A u \in Users : delivered[u] = 0)

\* four hits and one miss out of five
LossLeavesQueueWitness ==
    /\ ReturnedOk("g1")
    /\ game["g1"].count = 5
    /\ Len(game["g1"].results) = 5
    /\ game["g1"].hits = 4

-----------------------------------------------------------------------------
(* play_callback and on_successful_payment *)

FREE_COOLDOWN == 180
STAR_UNIT_MULTIPLIER == 1

\* a request charged the full cost whatever the balance
ShortfallMutant(cost, vstars) == cost

\* missing = cost - vstars
Shortfall(cost, vstars) == cost - vstars

\* payload = f"buy_and_play:{user_id}:{cnt}:{1 if premium else 0}:{ts}"
Payload(user, key, ts) ==
    [user |-> user, cnt |-> BUTTONS[key].cnt, premium |-> BUTTONS[key].premium,
     ts |-> ts]

\* the button a payload's throw count and tier stand for
KeyOf(payload) ==
    CHOOSE k \in DOMAIN BUTTONS :
       BUTTONS[k].cnt = payload.cnt /\ BUTTONS[k].premium = payload.premium

\* the handler of p ends and leaves `ret` for its caller, the dispatcher
CallDone(c, ret) ==
    [IdleCall EXCEPT !.kind = c.kind, !.pc = "done", !.user = c.user,
                     !.chat = c.chat, !.key = c.key, !.replay = c.replay,
                     !.ret = ret]

\* an update with callback data play_<key> reaches play_callback
PlayInvoke(p, chat, user, key) ==
    /\ call[p].pc = "idle"
    /\ game[p].pc = "idle"
    /\ call' = [call EXCEPT ![p] =
                  [IdleCall EXCEPT !.kind = "play", !.pc = "ban", !.chat = chat,
                                   !.user = user, !.key = key]]
    /\ updates' = updates + 1
    /\ UNCHANGED << now, invoice_map, invoices, free_runs, ledgerVars,
                    game, game_locks >>

\* await is_banned(user_id)
PlayBan(p) ==
    /\ call[p].kind = "play"
    /\ call[p].pc = "ban"
    /\ \E b \in {is_banned(call[p].user, ok) : ok \in DbUp} :
         call' = [call EXCEPT ![p] =
                    IF b THEN CallDone(call[p], "banned")
                    ELSE [call[p] EXCEPT !.pc = "ensure"]]
    /\ UNCHANGED << now, invoice_map, invoices, free_runs, updates, ledgerVars,
                    game, game_locks >>

\* await ensure_user(user_id); then the lock test, the button, and for the
\* free button the clock read before get_user_free_next is awaited
PlayEnsure(p) ==
    LET c == call[p]
    IN  /\ c.kind = "play"
        /\ c.pc = "ensure"
        /\ \E ok \in DbUp :
             LET o == ensure_user(db_users, mem_users, c.user, ok)
             IN  /\ db_users' = o.db
                 /\ mem_users' = o.mem
        /\ call' = [call EXCEPT ![p] =
                      IF LockHeld(c.chat) THEN CallDone(c, "busy")
                      ELSE IF BUTTONS[c.key].cost = 0
                      THEN [c EXCEPT !.pc = "free_get", !.now = now]
                      ELSE [c EXCEPT !.pc = "get_virtual"]]
        /\ UNCHANGED << now, invoice_map, invoices, free_runs, updates,
                        game, game_locks >>

\* free_next = await get_user_free_next(user_id); `if now < free_next` the
\* request is turned away with the time that remains
PlayFreeGet(p) ==
    LET c == call[p]
    IN  /\ c.kind = "play"
        /\ c.pc = "free_get"
        /\ \E ok1 \in DbUp, ok2 \in DbUp :
             LET o == get_user_free_next(db_users, mem_users, c.user, ok1, ok2)
             IN  /\ db_users' = o.db
                 /\ mem_users' = o.mem
                 /\ call' = [call EXCEPT ![p] =
                       IF c.now < o.ret
                       THEN [CallDone(c, "cooldown") EXCEPT
                               !.now = c.now, !.free_next = o.ret]
                       ELSE [c EXCEPT !.pc = "free_set", !.free_next = o.ret]]
        /\ UNCHANGED << now, invoice_map, invoices, free_runs, updates,
                        game, game_locks >>

\* await set_user_free_next(user_id, now + FREE_COOLDOWN)
PlayFreeSet(p) ==
    LET c == call[p]
    IN  /\ c.kind = "play"
        /\ c.pc = "free_set"
        /\ \E ok \in DbUp :
             LET o == set_user_free_next(db_users, mem_users, c.user,
                                         c.now + FREE_COOLDOWN, ok)
             IN  /\ db_users' = o.db
                 /\ mem_users' = o.mem
        /\ call' = [call EXCEPT ![p].pc = "answer"]
        /\ UNCHANGED << now, invoice_map, invoices, free_runs, updates,
                        game, game_locks >>

\* vstars = await get_user_virtual(user_id); `if vstars >= cost` the game is
\* paid from the balance, otherwise the payload is built with ts = the clock
PlayGetVirtual(p) ==
    LET c == call[p]
    IN  /\ c.kind = "play"
        /\ c.pc = "get_virtual"
        /\ \E ok \in DbUp :
             LET o == get_user_virtual(db_users, mem_users, c.user, ok)
             IN  /\ db_users' = o.db
                 /\ mem_users' = o.mem
                 /\ call' = [call EXCEPT ![p] =
                       IF o.ret >= BUTTONS[c.key].cost
                       THEN [c EXCEPT !.pc = "debit", !.vstars = o.ret]
                       ELSE [c EXCEPT !.pc = "invoice", !.vstars = o.ret,
                                      !.now = now]]
        /\ UNCHANGED << now, invoice_map, invoices, free_runs, updates,
                        game, game_locks >>

\* await change_user_virtual(user_id, -cost)
PlayDebit(p) ==
    LET c == call[p]
    IN  /\ c.kind = "play"
        /\ c.pc = "debit"
        /\ \E f \in DbFaults :
             LET o == change_user_virtual(db_users, mem_users, c.user,
                                          0 - BUTTONS[c.key].cost, f)
             IN  /\ db_users' = o.db
                 /\ mem_users' = o.mem
        /\ call' = [call EXCEPT ![p].pc = "answer"]
        /\ UNCHANGED << now, invoice_map, invoices, free_runs, updates,
                        game, game_locks >>

\* await call.answer(), then start_game_flow is called; an answer that
\* raises ends the handler
PlayAnswer(p) ==
    LET c == call[p]
    IN  /\ c.kind = "play"
        /\ c.pc = "answer"
        /\ \/ /\ GameInvoke(p, c.chat, c.user, c.key)
              /\ call' = [call EXCEPT ![p].pc = "game"]
           \/ /\ call' = [call EXCEPT ![p] = CallDone(c, "error")]
              /\ UNCHANGED << game, game_locks, ledgerVars >>
        /\ UNCHANGED << now, invoice_map, invoices, free_runs, updates >>

\* await bot.send_invoice(...) for the shortfall, and the entry of
\* invoice_map; a send that raises is logged and reported to the user
PlaySendInvoice(p) ==
    LET c == call[p]
        payload == Payload(c.user, c.key, c.now)
    IN  /\ c.kind = "play"
        /\ c.pc = "invoice"
        /\ \/ /\ invoices' = Append(invoices,
                    [payload |-> payload,
                     amount |-> Shortfall(BUTTONS[c.key].cost, c.vstars)
                                  * STAR_UNIT_MULTIPLIER,
                     chat |-> c.chat, deliveries |-> 0])
              /\ invoice_map' = Put(invoice_map, payload, c.chat)
              /\ call' = [call EXCEPT ![p] =
                            [CallDone(c, "invoice") EXCEPT !.inv = Len(invoices) + 1,
                                                           !.vstars = c.vstars]]
           \/ /\ call' = [call EXCEPT ![p] = CallDone(c, "no_invoice")]
              /\ UNCHANGED << invoices, invoice_map >>
        /\ UNCHANGED << now, free_runs, updates, ledgerVars, game, game_locks >>

\* stars counted at half of what was paid for them
PaidStarsMutant(total_amount) == total_amount \div (2 * STAR_UNIT_MULTIPLIER)

\* paid_stars = int(paid_amount_raw // STAR_UNIT_MULTIPLIER)
PaidStars(total_amount) == total_amount \div STAR_UNIT_MULTIPLIER

\* invoice_map without the entry of payload
Pop(map, payload) == [x \in DOMAIN map \ {payload} |-> map[x]]

\* a successful_payment update for invoice i reaches on_successful_payment:
\* the payload is parsed, its entry popped from invoice_map (the chat of the
\* request, or the payer's chat when there is no entry), the invoice message
\* deleted and the amount paid converted to stars
PayDeliver(p, i) ==
    LET inv == invoices[i]
    IN  /\ call[p].pc = "idle"
        /\ game[p].pc = "idle"
        /\ invoices' = [invoices EXCEPT ![i].deliveries = @ + 1]
        /\ invoice_map' = Pop(invoice_map, inv.payload)
        /\ call' = [call EXCEPT ![p] =
              [IdleCall EXCEPT
                 !.kind = "pay",
                 !.pc = IF PaidStars(inv.amount) > 0 THEN "spend" ELSE "reset",
                 !.user = inv.payload.user,
                 !.key = KeyOf(inv.payload),
                 !.chat = IF inv.payload \in DOMAIN invoice_map
                          THEN invoice_map[inv.payload] ELSE inv.payload.user,
                 !.inv = i,
                 !.paid = PaidStars(inv.amount),
                 !.replay = inv.deliveries > 0]]
        /\ updates' = updates + 1
        /\ UNCHANGED << now, free_runs, ledgerVars, game, game_locks >>

\* await add_user_spent_real(payer_id, paid_stars)
PaySpend(p) ==
    LET c == call[p]
    IN  /\ c.kind = "pay"
        /\ c.pc = "spend"
        /\ \E ok \in DbUp :
             LET o == add_user_spent_real(db_users, mem_users, c.user, c.paid, ok)
             IN  /\ db_users' = o.db
                 /\ mem_users' = o.mem
        /\ call' = [call EXCEPT ![p].pc = "reset"]
        /\ UNCHANGED << now, invoice_map, invoices, free_runs, updates,
                        game, game_locks >>

\* await set_user_virtual(payer_id, 0); then `if game_locks.get(origin_chat_id)`
\* the payer is told the game will start later and the handler returns,
\* otherwise start_game_flow is called
PayReset(p) ==
    LET c == call[p]
    IN  /\ c.kind = "pay"
        /\ c.pc = "reset"
        /\ \E f \in DbFaults :
             LET o == set_user_virtual(db_users, mem_users, c.user, 0, f)
             IN  /\ db_users' = o.db
                 /\ mem_users' = o.mem
        /\ IF LockHeld(c.chat)
           THEN /\ call' = [call EXCEPT ![p] = CallDone(c, "later")]
                /\ UNCHANGED game
           ELSE /\ call' = [call EXCEPT ![p].pc = "game"]
                /\ game' = [game EXCEPT ![p] =
                      [IdleGame EXCEPT !.pc = "begin", !.chat = c.chat,
                                       !.user = c.user,
                                       !.count = BUTTONS[c.key].cnt,
                                       !.premium = BUTTONS[c.key].premium]]
        /\ UNCHANGED << now, invoice_map, invoices, free_runs, updates, game_locks >>

\* start_game_flow returned to the handler, which returns
CallGameDone(p) ==
    /\ call[p].pc = "game"
    /\ game[p].pc = "done"
    /\ game' = [game EXCEPT ![p] = IdleGame]
    /\ call' = [call EXCEPT ![p] = CallDone(call[p], game[p].ret)]
    /\ UNCHANGED << now, invoice_map, invoices, free_runs, updates, ledgerVars,
                    game_locks >>

\* the dispatcher is done with the update
CallReturn(p) ==
    /\ call[p].pc = "done"
    /\ call' = [call EXCEPT ![p] = IdleCall]
    /\ UNCHANGED << now, invoice_map, invoices, free_runs, updates, ledgerVars,
                    game, game_locks >>

\* half a cooldown passes on the clock
TickLen == FREE_COOLDOWN \div 2

Tick ==
    /\ now' = now + TickLen
    /\ UNCHANGED << invoice_map, invoices, free_runs, updates, call, ledgerVars,
                    game, game_locks >>

\* a game of the free button takes the lock: the clock value of the request
\* that led to it (now at bot.py:839) is noted
FreeRun(p) ==
    IF game[p].pc = "begin" /\ game'[p].pc \in {"throw", "wait"}
       /\ call[p].kind = "play" /\ BUTTONS[call[p].key].cost = 0
    THEN free_runs' = [free_runs EXCEPT ![game[p].user] = Append(@, call[p].now)]
    ELSE UNCHANGED free_runs

-----------------------------------------------------------------------------
(* Requests to play and payments of one account, interleaved *)

MaxUpdates == 2     \* updates handled in one behaviour
MaxDeliveries == 2  \* times Telegram may deliver the confirmation of one invoice
MaxTicks == 2       \* half cooldowns the clock may advance

\* a paid button of each tier
PaidKeys == {"p1", "prem1"}

\* the button that costs nothing
FreeKeys == {k \in DOMAIN BUTTONS : BUTTONS[k].cost = 0}

\* the account whose requests and payments are followed
Players == {"u1"}

\* what the account may hold at start-up: nothing, or four referral bonuses
StartBalances == {0, 4 * REF_BONUS}

\* a game that misses every throw
MissDice == {HIT_MIN - 1}

\* after init_db and earlier sessions that left the players a balance
PlayInit(pools, balances) ==
    /\ db_pool \in pools
    /\ \E b \in [Players -> balances] :
         LET rows == [u \in Players |-> [DefaultRow EXCEPT !.virtual_stars = b[u]]]
         IN  /\ db_users = IF db_pool THEN rows ELSE EmptyTable
             /\ mem_users = IF db_pool THEN EmptyTable ELSE rows
    /\ db_referrals = EmptyTable
    /\ mem_referrals = EmptyTable
    /\ db_banned = {}
    /\ mem_banned = {}
    /\ pending_gifts = << >>
    /\ mem_pending_gifts = << >>
    /\ row_lock = EmptyTable
    /\ bot_stars = 0
    /\ game_locks = {}
    /\ delivered = [u \in Users |-> 0]
    /\ game = [p \in Procs |-> IdleGame]
    /\ refcall = [p \in Procs |-> IdleRef]
    /\ worker = [w \in Workers |-> IdleWorker]
    /\ now = 0
    /\ invoice_map = EmptyTable
    /\ invoices = << >>
    /\ call = [p \in Procs |-> IdleCall]
    /\ free_runs = [u \in Users |-> << >>]
    /\ updates = 0
    /\ trial = IdleTrial
    /\ pace = IdlePace
    /\ chg = IdleChanges

\* what no handler step touches
PlayOthers ==
    UNCHANGED << db_pool, banVars, worker, refVars, refcall, queueVars, delivered,
                 trial, pace, chg >>

\* what no game step touches
PlayGameOthers ==
    UNCHANGED << db_pool, banVars, worker, now, invoice_map, invoices, call,
                 updates, trial, pace, chg >>

\* a player presses one of the buttons `keys`, in private or in the group
Press(keys, n) ==
    /\ updates < n
    /\ \E p \in Procs, u \in Players, key \in keys :
         \E c \in {u} \cup Groups : PlayInvoke(p, c, u, key)
    /\ PlayOthers

\* the steps of p every request goes through, and the game it may start
CallStep(p) ==
    \/ PlayBan(p) /\ PlayOthers
    \/ PlayEnsure(p) /\ PlayOthers
    \/ PlayAnswer(p) /\ PlayOthers
    \/ CallGameDone(p) /\ PlayOthers
    \/ CallReturn(p) /\ PlayOthers
    \/ GameBegin(p) /\ FreeRun(p) /\ PlayGameOthers
    \/ \E v \in MissDice : GameThrow(p, v) /\ UNCHANGED free_runs /\ PlayGameOthers
    \/ GameWait(p) /\ UNCHANGED free_runs /\ PlayGameOthers
    \/ GamePlays(p) /\ UNCHANGED free_runs /\ PlayGameOthers
    \/ GameRef(p) /\ UNCHANGED free_runs /\ PlayGameOthers
    \/ GameRefStep(p) /\ UNCHANGED free_runs /\ PlayGameOthers
    \/ GameClassify(p) /\ UNCHANGED free_runs /\ PlayGameOthers
    \/ GameSummary(p) /\ UNCHANGED free_runs /\ PlayGameOthers
    \/ GameMenu(p) /\ UNCHANGED free_runs /\ PlayGameOthers

\* the steps of p on the paid path and in the handler of a confirmation
PaidStep(p) ==
    \/ PlayGetVirtual(p) /\ PlayOthers
    \/ PlayDebit(p) /\ PlayOthers
    \/ PlaySendInvoice(p) /\ PlayOthers
    \/ PaySpend(p) /\ PlayOthers
    \/ PayReset(p) /\ PlayOthers

\* Telegram delivers the confirmation of an invoice, at most d times
Confirm(n, d) ==
    /\ updates < n
    /\ \E p \in Procs, i \in DOMAIN invoices :
         /\ invoices[i].deliveries < d
         /\ PayDeliver(p, i)
    /\ PlayOthers

\* n updates: presses of the paid buttons, and confirmations of the invoices
\* they led to, each delivered at most d times
PayNext(n, d) ==
    \/ Press(PaidKeys, n)
    \/ Confirm(n, d)
    \/ \E p \in Procs : PaidStep(p)
    \/ \E p \in Procs : CallStep(p)

\* two updates: two requests, or a request and the payment it asked for
PaySpec == PlayInit(BOOLEAN, StartBalances) /\ [][PayNext(MaxUpdates, MaxDeliveries)]_vars

\* one update more: a confirmation delivered again, or a payment that comes
\* while another game runs
PayAgainSpec ==
    PlayInit(BOOLEAN, StartBalances) /\ [][PayNext(MaxUpdates + 1, MaxDeliveries)]_vars

\* presses of the free button while the clock advances
FreeNext ==
    \/ Press(FreeKeys, MaxUpdates)
    \/ \E p \in Procs : PlayFreeGet(p) /\ PlayOthers
    \/ \E p \in Procs : PlayFreeSet(p) /\ PlayOthers
    \/ now < MaxTicks * TickLen /\ Tick /\ PlayOthers
    \/ \E p \in Procs : CallStep(p)

\* the cooldown races on the storage round trips, so the pool is set
FreeSpec == PlayInit({TRUE}, {0}) /\ [][FreeNext]_vars

-----------------------------------------------------------------------------
(* Claims about payments *)

\* lifetime spend on record for u, in the table and in its mirror
Spent(db, mem, u) == DbSpent(db, u) + MemSpent(mem, u)

\* the handler of p records the spend of the confirmation it handles
SpendStep(p) ==
    call[p].kind = "pay" /\ call[p].pc = "spend" /\ call'[p].pc = "reset"

\* the handler of p calls start_game_flow for the confirmation it handles
ResumeStep(p) ==
    call[p].kind = "pay" /\ call[p].pc = "reset" /\ call'[p].pc = "game"

\* C11: a confirmation delivered again (the same buy_and_play payload as a
\* confirmation handled before) neither raises spent_real nor starts a game.
PaymentSingleUse ==
    [][\A p \in Procs :
         call[p].replay =>
           /\ SpendStep(p) =>
                Spent(db_users', mem_users', call[p].user)
                  = Spent(db_users, mem_users, call[p].user)
           /\ ~ResumeStep(p)]_vars

\* the handler of p is between the confirmation and the end of its
\* bookkeeping
Bookkeeping(p) == call[p].kind = "pay" /\ call[p].pc \in {"spend", "reset"}

\* the handler of p resets the balance of the payer
ResetStep(p) ==
    call[p].kind = "pay" /\ call[p].pc = "reset" /\ call'[p].pc # "reset"

\* the store the reset was written to holds 0 for u: the table, or, when the
\* write raised and left the table alone, the mirror
BalanceReset(u) ==
    \/ u \in DOMAIN db_users' /\ db_users'[u].virtual_stars = 0
    \/ /\ db_users' = db_users
       /\ u \in DOMAIN mem_users' /\ mem_users'[u].virtual_stars = 0

\* C12: the handler of a confirmation raises spent_real of the payer by
\* exactly the stars paid for the invoice and sets the payer's balance to 0,
\* and no game of that handler exists until both are done, whatever the
\* balance was.
ConfirmationBookkeeping ==
    [][\A p \in Procs :
         /\ Bookkeeping(p) => game[p].pc = "idle"
         /\ SpendStep(p) =>
              /\ ( Spent(db_users', mem_users', call[p].user)
                   - Spent(db_users, mem_users, call[p].user) )
                     * STAR_UNIT_MULTIPLIER
                 = invoices[call[p].inv].amount
              /\ game'[p].pc = "idle"
         /\ ResetStep(p) => BalanceReset(call[p].user)
         /\ ResumeStep(p) => ResetStep(p)]_vars

\* a confirmation for an account that held twelve stars and paid three for
\* the premium button: three stars are on record, the balance is 0 and the
\* game was called
ConfirmationBookkeepingWitness ==
    \E p \in Procs :
       /\ call[p].kind = "pay"
       /\ call[p].pc = "game"
       /\ call[p].paid = BUTTONS["prem1"].cost - 4 * REF_BONUS
       /\ Spent(db_users, mem_users, call[p].user) = call[p].paid
       /\ DbVirtual(db_users, call[p].user) = 0
       /\ MemVirtual(mem_users, call[p].user) = 0

\* the bot runs on its in-memory stores, every confirmation is delivered
\* once, and the event loop runs every handler and every game that can take
\* a step
PayFairSpec ==
    /\ PlayInit({FALSE}, StartBalances)
    /\ [][PayNext(MaxUpdates + 1, 1)]_vars
    /\ \A p \in Procs : WF_vars(PaidStep(p) \/ CallStep(p))

\* the handler of p has the first confirmation of invoice i in hand, and no
\* other invoice carries the payload of i
Confirmed(p, i) ==
    /\ Bookkeeping(p)
    /\ call[p].inv = i
    /\ ~call[p].replay
    /\ \A j \in DOMAIN invoices : j # i => invoices[j].payload # invoices[i].payload

\* the handler of p, which has the confirmation of invoice i, runs a game in
\* the chat of the request with the throws and tier of its payload
Resumed(p, i) ==
    /\ call[p].kind = "pay"
    /\ call[p].inv = i
    /\ i <= Len(invoices)
    /\ Running(p)
    /\ game[p].chat = invoices[i].chat
    /\ game[p].user = invoices[i].payload.user
    /\ game[p].count = invoices[i].payload.cnt
    /\ game[p].premium = invoices[i].payload.premium

\* C13: the first confirmation of every invoice leads to a game with the
\* throws and tier of its payload running in the chat where the button was
\* pressed, also when a game runs there at the time of the confirmation.
PaymentResumes ==
    \A p \in Procs : \A i \in 1..(MaxUpdates + 1) :
       Confirmed(p, i) ~> Resumed(p, i)

\* the invoices sent and not yet confirmed
Outstanding == {i \in DOMAIN invoices : invoices[i].deliveries = 0}

\* C14: two payment requests never carry the same payload, also when one
\* account asks twice for the same button within one second, and invoice_map
\* holds an entry for every request that is not confirmed yet.
PayloadsUnique ==
    /\ \A i, j \in DOMAIN invoices :
          i # j => invoices[i].payload # invoices[j].payload
    /\ \A i \in Outstanding :
          /\ invoices[i].payload \in DOMAIN invoice_map
          /\ invoice_map[invoices[i].payload] = invoices[i].chat

\* play_callback of p found the balance below the cost of its button
Deferred(p) == call[p].kind = "play" /\ call[p].pc = "invoice"

\* the invoice play_callback of p asks for: the shortfall, in the units of
\* the payment, under a payload of account, throws, tier and clock
InvoiceDue(p) ==
    [payload |-> [user |-> call[p].user, cnt |-> BUTTONS[call[p].key].cnt,
                  premium |-> BUTTONS[call[p].key].premium, ts |-> call[p].now],
     amount |-> (BUTTONS[call[p].key].cost - call[p].vstars) * STAR_UNIT_MULTIPLIER,
     chat |-> call[p].chat, deliveries |-> 0]

\* C15: a press of a paid button by an account that holds less than the cost
\* starts no game and leaves the balance as it was; the handler asks for an
\* invoice of exactly cost - balance whose payload names the account, the
\* throws, the tier and the clock, and ends when the invoice is sent (or the
\* send raised).
InsufficientBalanceDefers ==
    [][\A p \in Procs :
         /\ Deferred(p)' =>
              /\ game'[p].pc = "idle"
              /\ call'[p].vstars < BUTTONS[call'[p].key].cost
         /\ ~Deferred(p) /\ Deferred(p)' =>
              /\ call'[p].vstars
                   \in {DbVirtual(db_users', call'[p].user),
                        MemVirtual(mem_users', call'[p].user)}
              /\ Holdings(db_users', mem_users', call'[p].user)
                   = Holdings(db_users, mem_users, call'[p].user)
         /\ Deferred(p) /\ ~Deferred(p)' =>
              /\ game'[p].pc = "idle"
              /\ call'[p].pc = "done"
              /\ Holdings(db_users', mem_users', call[p].user)
                   = Holdings(db_users, mem_users, call[p].user)
              /\ \/ call'[p].ret = "invoice" /\ invoices' = Append(invoices, InvoiceDue(p))
                 \/ call'[p].ret = "no_invoice" /\ invoices' = invoices]_vars

\* an account that holds twelve stars pressed the premium button: an invoice
\* for three was sent and the twelve stars are still there
InsufficientBalanceDefersWitness ==
    \E p \in Procs :
       /\ call[p].kind = "play"
       /\ call[p].pc = "done"
       /\ call[p].ret = "invoice"
       /\ call[p].vstars = 4 * REF_BONUS
       /\ invoices[call[p].inv].amount = BUTTONS["prem1"].cost - 4 * REF_BONUS
       /\ invoices[call[p].inv].payload.premium
       /\ 4 * REF_BONUS \in {DbVirtual(db_users, call[p].user),
                             MemVirtual(mem_users, call[p].user)}
       /\ game[p].pc = "idle"

-----------------------------------------------------------------------------
(* Claims about the free button *)

\* the cooldown on record for u, in the table and in its mirror
Cooldowns(db, mem, u) == << DbFreeNext(db, u), MemFreeNext(mem, u) >>

\* play_callback of p turns its request away: the cooldown runs
RejectStep(p) ==
    call[p].kind = "play" /\ call[p].pc = "free_get" /\ call'[p].pc = "done"

\* play_callback of p writes the next cooldown
AcceptStep(p) ==
    call[p].kind = "play" /\ call[p].pc = "free_set" /\ call'[p].pc = "answer"

\* a request turned away came before the cooldown it read, starts no game
\* and leaves the cooldown alone; an accepted one sets it to now + 180
CooldownSteps ==
    \A p \in Procs :
       /\ RejectStep(p) =>
            /\ call'[p].ret = "cooldown"
            /\ call'[p].free_next - call'[p].now > 0
            /\ game'[p].pc = "idle"
            /\ Cooldowns(db_users', mem_users', call[p].user)
                 = Cooldowns(db_users, mem_users, call[p].user)
       /\ AcceptStep(p) =>
            /\ call[p].now >= call[p].free_next
            /\ call[p].now + FREE_COOLDOWN
                 \in {DbFreeNext(db_users', call[p].user),
                      MemFreeNext(mem_users', call[p].user)}

\* the free games of every account come from requests 180 seconds apart
FreeGamesApart ==
    \A u \in Users : \A i, j \in DOMAIN free_runs[u] :
       i < j => \/ free_runs[u][j] - free_runs[u][i] >= FREE_COOLDOWN
                \/ free_runs[u][i] - free_runs[u][j] >= FREE_COOLDOWN

\* C16: a free request before cooldown_until is turned away with the time
\* that remains, starts no game and leaves cooldown_until alone; one at or
\* after it sets cooldown_until to now + 180; so, however the requests of one
\* account interleave, no two of its free games start from requests less
\* than 180 seconds apart.
ZeroCostCooldown == [][CooldownSteps]_vars /\ []FreeGamesApart

-----------------------------------------------------------------------------
(* The payload of an invoice as text: how play_callback writes it and how
   on_successful_payment reads it *)

DigitChars == << "0", "1", "2", "3", "4", "5", "6", "7", "8", "9" >>

\* str(n) for an integer
RECURSIVE Str(_)
Str(n) ==
    IF n < 0 THEN << "-" >> \o Str(0 - n)
    ELSE IF n < 10 THEN << DigitChars[n + 1] >>
    ELSE Str(n \div 10) \o << DigitChars[(n % 10) + 1] >>

\* a flag written the way str(bool) writes it
PremiumFieldMutant(premium) ==
    IF premium THEN << "T", "r", "u", "e" >> ELSE << "F", "a", "l", "s", "e" >>

\* {1 if premium else 0}
PremiumField(premium) == IF premium THEN Str(1) ELSE Str(0)

Prefix == << "b", "u", "y", "_", "a", "n", "d", "_", "p", "l", "a", "y" >>

\* f"buy_and_play:{user_id}:{cnt}:{1 if premium else 0}:{ts}"
FormatPayload(user_id, cnt, premium, ts) ==
    Prefix \o << ":" >> \o Str(user_id) \o << ":" >> \o Str(cnt) \o << ":" >>
      \o PremiumField(premium) \o << ":" >> \o Str(ts)

\* payload.startswith(prefix)
StartsWith(text, prefix) ==
    Len(text) >= Len(prefix) /\ SubSeq(text, 1, Len(prefix)) = prefix

\* text.split(":")
RECURSIVE Split(_)
Split(text) ==
    IF \A k \in 1 .. Len(text) : text[k] # ":"
    THEN << text >>
    ELSE LET k == CHOOSE x \in 1 .. Len(text) :
                     text[x] = ":" /\ \A y \in 1 .. (x - 1) : text[y] # ":"
         IN  << SubSeq(text, 1, k - 1) >> \o Split(SubSeq(text, k + 1, Len(text)))

\* part.isdigit()
IsDigit(part) ==
    part # << >> /\ \A k \in 1 .. Len(part) : part[k] \in Range(DigitChars)

DigitValue(c) == (CHOOSE d \in 1 .. 10 : DigitChars[d] = c) - 1

\* int(part) for a part of digits
RECURSIVE ToInt(_)
ToInt(part) ==
    IF Len(part) = 1 THEN DigitValue(part[1])
    ELSE 10 * ToInt(SubSeq(part, 1, Len(part) - 1)) + DigitValue(part[Len(part)])

\* the count and the tier on_successful_payment starts the game with:
\* cnt = int(parts[2]) if parts[2].isdigit() else 1, prem_flag the same way
\* from parts[3] with 0 otherwise, both 1 and 0 for fewer than four parts,
\* and bool(prem_flag)
ParsePayload(payload) ==
    LET parts == Split(payload)
        cnt == IF Len(parts) >= 4 /\ IsDigit(parts[3]) THEN ToInt(parts[3]) ELSE 1
        prem_flag == IF Len(parts) >= 4 /\ IsDigit(parts[4]) THEN ToInt(parts[4]) ELSE 0
    IN  [cnt |-> cnt, premium |-> prem_flag # 0]

\* account ids and clock values of one to ten digits
UserIds == {7, 42, 905, 1234567890}
Stamps == {0, 9, 10, 1762000000}

\* an account, a button and a clock value are picked
TryPayload(user_id, key, ts) ==
    /\ trial.fn = "none"
    /\ trial' = [fn |-> "payload", arg |-> << user_id, key, ts >>, out |-> << >>]

\* play_callback builds the payload
TryFormat ==
    /\ trial.fn = "payload"
    /\ trial' = [trial EXCEPT
                   !.fn = "built",
                   !.out = FormatPayload(trial.arg[1], BUTTONS[trial.arg[2]].cnt,
                                         BUTTONS[trial.arg[2]].premium, trial.arg[3])]

\* on_successful_payment reads it
TryParse ==
    /\ trial.fn = "built"
    /\ StartsWith(trial.out, Prefix \o << ":" >>)
    /\ trial' = [trial EXCEPT !.fn = "parsed", !.out = ParsePayload(trial.out)]

TrialOthers ==
    UNCHANGED << db_pool, ledgerVars, refVars, banVars, queueVars, game_locks,
                 delivered, game, refcall, worker, now, invoice_map, invoices,
                 call, free_runs, updates, pace, chg >>

PayloadNext ==
    \/ \E u \in UserIds, key \in DOMAIN BUTTONS, ts \in Stamps :
         TryPayload(u, key, ts) /\ TrialOthers
    \/ TryFormat /\ TrialOthers
    \/ TryParse /\ TrialOthers

\* the codec touches no storage
PayloadInit ==
    /\ db_pool = FALSE
    /\ InitTables

PayloadSpec == PayloadInit /\ [][PayloadNext]_vars

\* C23: whatever the account, the button and the clock value, the payload
\* play_callback builds is read back by on_successful_payment as the throw
\* count and the tier of that button.
PayloadRoundTrip ==
    trial.fn = "parsed" =>
       /\ trial.out.cnt = BUTTONS[trial.arg[2]].cnt
       /\ trial.out.premium = BUTTONS[trial.arg[2]].premium

\* the payload of the premium button, for a ten-digit account and clock, was
\* read back
PayloadRoundTripWitness ==
    /\ trial.fn = "parsed"
    /\ trial.arg[1] = 1234567890
    /\ trial.arg[3] = 1762000000
    /\ trial.out.premium

\* the call of p writes the count of its account's link
CountStep(p) ==
    /\ refcall[p].pc \in {"read", "write"}
    /\ refcall[p].user \in DOMAIN Links /\ refcall[p].user \in DOMAIN Links'
    /\ Links'[refcall[p].user] # Links[refcall[p].user]

\* the call of p ends without a write: no link, a rewarded link, or a
\* round trip that raised
NoWriteStep(p) ==
    /\ refcall[p].pc \in {"read", "write"}
    /\ refcall'[p].pc = "done"
    /\ refcall'[p].path \in {"skipped", "rewarded", "error"}

\* the call of p credits the inviter
CreditStep(p) == refcall[p].pc = "credit" /\ refcall'[p].pc = "done"

\* C24: with calls one after the other, a call of increment_referred_play on
\* a link that is not rewarded raises plays by exactly 1 and marks the link
\* rewarded exactly when plays reaches 5, and that call then credits the
\* inviter exactly 3; a call for an account with no link or with a rewarded
\* link changes nothing; plays is within 0..5 in every reachable state.
OnPlayStep ==
    /\ [](\A r \in DOMAIN db_referrals : db_referrals[r].plays \in 0 .. REF_PLAYS)
    /\ [](\A r \in DOMAIN mem_referrals : mem_referrals[r].plays \in 0 .. REF_PLAYS)
    /\ [][\A p \in Procs :
            LET u == refcall[p].user
                i == refcall[p].inviter
            IN  /\ CountStep(p) =>
                     /\ ~Links[u].rewarded
                     /\ Links'[u].plays = Links[u].plays + 1
                     /\ Links'[u].inviter = Links[u].inviter
                     /\ Links'[u].rewarded <=> Links'[u].plays = REF_PLAYS
                     /\ Links'[u].rewarded <=> refcall'[p].pc = "credit"
                     /\ UNCHANGED ledgerVars
                /\ refcall[p].pc = "read" /\ refcall'[p].pc # "read"
                   /\ ~db_pool /\ u \in DOMAIN Links /\ ~Links[u].rewarded
                     => CountStep(p)
                /\ refcall[p].pc = "read" /\ refcall'[p].pc = "write"
                     => /\ ~Links[u].rewarded
                        /\ refcall'[p].plays = Links[u].plays + 1
                /\ NoWriteStep(p) => UNCHANGED << refVars, ledgerVars >>
                /\ refcall[p].pc = "read" /\ refcall'[p].pc = "done"
                   /\ (u \notin DOMAIN Links \/ Links[u].rewarded)
                     => UNCHANGED << refVars, ledgerVars >>
                /\ CreditStep(p) =>
                     /\ UNCHANGED refVars
                     /\ DbVirtual(db_users', i) - DbVirtual(db_users, i) \in {0, REF_BONUS}
                     /\ MemVirtual(mem_users', i) - MemVirtual(mem_users, i) \in {0, REF_BONUS}
                     /\ Holdings(db_users', mem_users', i) # Holdings(db_users, mem_users, i)
                     /\ \A x \in Users \ {i} :
                          Holdings(db_users', mem_users', x) = Holdings(db_users, mem_users, x)]_vars

\* the fifth play of an invited account: the link is rewarded at plays 5 and
\* the call that did it has credited the inviter its three stars
OnPlayStepWitness ==
    \E p \in Procs :
       /\ refcall[p].pc = "done"
       /\ refcall[p].path = "credited"
       /\ refcall[p].user \in DOMAIN Links
       /\ Links[refcall[p].user].plays = REF_PLAYS
       /\ Links[refcall[p].user].rewarded
       /\ DbVirtual(db_users, Links[refcall[p].user].inviter)
            + MemVirtual(mem_users, Links[refcall[p].user].inviter) = REF_BONUS

\* C25: a rewarded link is never changed again: in every step, whichever
\* call takes it, a link that is rewarded keeps its inviter, its plays and
\* its rewarded mark, in the table and in the mirror.
RewardedLinkImmutable ==
    [][/\ \A r \in DOMAIN db_referrals :
            db_referrals[r].rewarded =>
               r \in DOMAIN db_referrals' /\ db_referrals'[r] = db_referrals[r]
       /\ \A r \in DOMAIN mem_referrals :
            mem_referrals[r].rewarded =>
               r \in DOMAIN mem_referrals' /\ mem_referrals'[r] = mem_referrals[r]]_vars

-----------------------------------------------------------------------------
(* Claims about failed throws, the lock and the pacing *)

\* the results summary of a game that is not a win: a line per result, or
\* the line that no ball could be sent
SummaryLines(results) ==
    IF results # << >>
    THEN [k \in 1 .. Len(results) |-> IF IsHit(results[k]) THEN "hit" ELSE "miss"]
    ELSE << "nothing_sent" >>

\* the loop of p is over
Thrown(p) == game[p].pc \notin {"idle", "begin", "throw", "done"}

\* p is past inc_stats
Scored(p) == game[p].pc \in {"gift", "enqueue", "summary", "menu"}

\* C26: a send_dice that raises is followed by the next throw (or by the
\* wait after the last), with the lock held and nothing recorded for it;
\* every game that left the loop made all its throws; its outcome is a win
\* exactly when at least one dice was sent and every dice sent is a hit; a
\* game none of whose dice was sent is not a win and its summary is the
\* 'nothing was sent' line.
EmissionFailuresTolerated ==
    /\ [](\A p \in Procs :
            /\ Thrown(p) => game[p].i = game[p].count /\ Len(game[p].results) <= game[p].i
            /\ Scored(p) =>
                 /\ game[p].win <=>
                      /\ game[p].results # << >>
                      /\ \A k \in 1 .. Len(game[p].results) : game[p].results[k] >= HIT_MIN
                 /\ game[p].results = << >> =>
                      /\ ~game[p].win
                      /\ game[p].pc \in {"summary", "menu"}
                      /\ SummaryLines(game[p].results) = << "nothing_sent" >>)
    /\ [][\A p \in Procs :
            game[p].pc = "throw" /\ game'[p] # game[p] /\ game'[p].results = game[p].results
              => /\ game'[p].i = game[p].i + 1
                 /\ game'[p].pc = IF game'[p].i = game[p].count THEN "wait" ELSE "throw"
                 /\ game[p].chat \in game_locks']_vars

\* the free button, five of six throws failed, the one dice sent is a hit:
\* the game is a win
EmissionFailuresToleratedWitness ==
    \E p \in Procs :
       /\ game[p].pc = "gift"
       /\ game[p].win
       /\ game[p].count = BUTTONS["p6"].cnt
       /\ Len(game[p].results) = 1

-----------------------------------------------------------------------------
(* Games that end by an exception *)

\* a `finally` that leaves the lock where it is
GameRaiseKeepsLock(p) ==
    /\ Running(p)
    /\ game' = [game EXCEPT ![p].pc = "done", ![p].ret = "raised"]
    /\ refcall' = [refcall EXCEPT ![p] = IdleRef]
    /\ UNCHANGED << game_locks, ledgerVars, refVars, queueVars, delivered >>

\* an exception leaves the `try` of start_game_flow at one of its awaits:
\* `finally: game_locks.pop(chat_id, None)`, and the exception goes to the caller
GameRaise(p) ==
    /\ Running(p)
    /\ game' = [game EXCEPT ![p].pc = "done", ![p].ret = "raised"]
    /\ refcall' = [refcall EXCEPT ![p] = IdleRef]
    /\ game_locks' = game_locks \ {game[p].chat}
    /\ UNCHANGED << ledgerVars, refVars, queueVars, delivered >>

\* the buttons of one throw
OneThrowButtons == {k \in DOMAIN BUTTONS : BUTTONS[k].cnt = 1}

\* a player presses a one-throw button, in their own chat or in the group,
\* until a throw of theirs has been counted
LockNext ==
    \/ /\ \E p \in Procs, u \in Players, key \in OneThrowButtons : \E c \in {u} \cup Groups :
            /\ PlaysTotal(u) = 0
            /\ GameInvoke(p, c, u, key)
       /\ GameOthers
    \/ GameSteps(Procs, EdgeDice)
    \/ \E p \in Procs : GameRaise(p) /\ GameOthers

\* the event loop runs every coroutine that can go on
LockFairness == \A p \in Procs : WF_vars(GameSteps({p}, EdgeDice))

LockSpec == GameInit({FALSE}) /\ [][LockNext]_vars /\ LockFairness

\* the chats a game is played in
Chats == Users \cup Groups

\* p leaves start_game_flow in this step, having held the lock
Exits(p) == Running(p) /\ ~Running(p)'

\* C27: every game that took the lock of its chat leaves start_game_flow, by
\* a win, a loss, no dice sent or an exception, and the step in which it
\* leaves releases the lock: no chat stays busy forever.
LockAlwaysReleased ==
    /\ \A p \in Procs, c \in Chats :
         (Running(p) /\ game[p].chat = c) ~> ~LockHeld(c)
    /\ [][\A p \in Procs : Exits(p) => ~LockHeld(game[p].chat)']_vars
    /\ [](\A c \in Chats : LockHeld(c) => \E p \in Procs : Running(p) /\ game[p].chat = c)

\* a game that held the lock of the group chat was ended by an exception, and
\* the chat is free again
LockAlwaysReleasedWitness ==
    \E p \in Procs :
       /\ game[p].pc = "done"
       /\ game[p].ret = "raised"
       /\ game[p].chat \in Groups
       /\ ~LockHeld(game[p].chat)

-----------------------------------------------------------------------------
(* The pacing of a game: the clock is time.monotonic() in units of half a
   second; a send_dice takes any time up to MaxLatency units and a sleep may
   overrun by as much *)

MaxLatency == 2     \* a send_dice takes at most this many units, a sleep overruns by at most as many
PacedThrows == 3    \* the paced games use the buttons of at most this many throws

\* MIN_WAIT_FROM_LAST_THROW = 4.0 seconds, in half seconds
MIN_WAIT_FROM_LAST_THROW == 8

\* await asyncio.sleep(0.5), in half seconds
PACING_DELAY == 1

Latencies == 0 .. MaxLatency

PacedButtons == {k \in DOMAIN BUTTONS : BUTTONS[k].cnt <= PacedThrows}

\* a wait counted from the first dice sent instead of the last
wait_for_first(p) ==
    LET t == pace.of[p]
        first == IF t.sent = << >> THEN pace.clock ELSE t.sent[1].returned
    IN  MIN_WAIT_FROM_LAST_THROW - (pace.clock - first)

\* if last_send_time is None: last_send_time = time.monotonic()
\* elapsed = time.monotonic() - last_send_time
\* wait_for = MIN_WAIT_FROM_LAST_THROW - elapsed
wait_for(p) ==
    LET t == pace.of[p]
        last_send_time == IF t.last_send_time = None THEN pace.clock
                          ELSE t.last_send_time
        elapsed == pace.clock - last_send_time
    IN  MIN_WAIT_FROM_LAST_THROW - elapsed

PaceOthers ==
    UNCHANGED << db_pool, banVars, worker, now, invoice_map, invoices, call,
                 free_runs, updates, trial, chg >>

\* the first game after start-up
PaceInvoke(p, key) ==
    /\ pace.clock = 0
    /\ GameInvoke(p, "u2", "u2", key)
    /\ UNCHANGED pace

\* send_dice returns a message after d units; last_send_time is read, the
\* message kept, and the sleep of 0.5 s ends o units late
PaceThrow(p, v, d, o) ==
    /\ GameThrow(p, v)
    /\ pace' = [clock |-> pace.clock + d + PACING_DELAY + o,
                of |-> [pace.of EXCEPT
                          ![p].last_send_time = pace.clock + d,
                          ![p].sent = Append(@, [called |-> pace.clock,
                                                 returned |-> pace.clock + d])]]

\* send_dice raises after d units: `continue`, with no sleep
PaceThrowFail(p, d) ==
    /\ GameThrowFail(p)
    /\ pace' = [pace EXCEPT !.clock = @ + d]

\* the sleep of wait_for when it is positive, ending o units late; then the
\* hits are counted
PaceWait(p, o) ==
    /\ GameWait(p)
    /\ LET t == IF wait_for(p) > 0 THEN pace.clock + wait_for(p) + o ELSE pace.clock
       IN  pace' = [clock |-> t, of |-> [pace.of EXCEPT ![p].scored = t]]

PaceNext ==
    \/ \E key \in PacedButtons : PaceInvoke("g1", key) /\ PaceOthers
    \/ GameBegin("g1") /\ GameOthers
    \/ \E d \in Latencies, o \in Latencies : PaceThrow("g1", HIT_MIN, d, o) /\ PaceOthers
    \/ \E d \in Latencies : PaceThrowFail("g1", d) /\ PaceOthers
    \/ \E o \in Latencies : PaceWait("g1", o) /\ PaceOthers
    \/ GamePlays("g1") /\ GameOthers
    \/ GameRef("g1") /\ GameOthers
    \/ GameRefStep("g1") /\ GameOthers
    \/ GameClassify("g1") /\ GameOthers
    \/ GameTrySend("g1") /\ GameOthers
    \/ GameEnqueue("g1") /\ GameOthers
    \/ GameSummary("g1") /\ GameOthers
    \/ GameMenu("g1") /\ GameOthers
    \/ GameReturn("g1") /\ GameOthers

PaceSpec == GameInit({FALSE}) /\ [][PaceNext]_vars

\* the game is past the wait: the hits are counted, the bookkeeping and the
\* classification follow
PastWait(p) == game[p].pc \notin {"idle", "begin", "throw", "wait"}

\* C28: once the hits of a game are counted, at least
\* MIN_WAIT_FROM_LAST_THROW has passed since the last dice was sent, however
\* long the sends took and however many failed; and a dice is sent no sooner
\* than the 0.5 s delay after the dice before it.
PacingFloor ==
    \A p \in Procs :
       LET t == pace.of[p]
       IN  /\ (PastWait(p) /\ t.sent # << >>) =>
                /\ t.scored # None
                /\ t.scored - t.sent[Len(t.sent)].returned >= MIN_WAIT_FROM_LAST_THROW
                /\ pace.clock >= t.scored
           /\ \A i \in 1 .. Len(t.sent) - 1 :
                t.sent[i + 1].called - t.sent[i].returned >= PACING_DELAY

\* a game of three throws of which one failed: the first send took as long
\* as a send may, the next dice was sent later than the 0.5 s delay after it,
\* and the hits were counted exactly MIN_WAIT_FROM_LAST_THROW after the last
\* dice
PacingFloorWitness ==
    LET t == pace.of["g1"]
    IN  /\ game["g1"].pc = "plays"
        /\ game["g1"].count = 3
        /\ Len(t.sent) = 2
        /\ t.sent[1].returned - t.sent[1].called = MaxLatency
        /\ t.sent[2].called - t.sent[1].returned > PACING_DELAY
        /\ t.scored - t.sent[2].returned = MIN_WAIT_FROM_LAST_THROW

-----------------------------------------------------------------------------
(* change_user_virtual with storage available, one round trip at a time:
   concurrent calls for one account, with ensure_user calls in between *)

MaxChanges == 3     \* calls of change_user_virtual made in one behaviour

\* the account of the calls
Payee == "u1"

\* a caller (the referral credit, the charge of a game, a balance purchase)
\* calls change_user_virtual(user_id, delta)
ChgInvoke(p, u, delta) ==
    /\ chg.of[p].pc = "idle"
    /\ Len(chg.log) < MaxChanges
    /\ chg' = [of |-> [chg.of EXCEPT ![p] = [IdleChange EXCEPT !.pc = "update",
                                                         !.user = u,
                                                         !.delta = delta]],
               log |-> Append(chg.log, delta)]
    /\ UNCHANGED ledgerVars

\* UPDATE users SET virtual_stars = GREATEST(virtual_stars + $1, 0)
\* WHERE user_id=$2 RETURNING virtual_stars; `if row: return`
ChgUpdate(p) ==
    LET c == chg.of[p]
        db == DbChangeVirtual(db_users, c.user, c.delta)
    IN  /\ c.pc = "update"
        /\ IF c.user \in DOMAIN db_users
           THEN /\ db_users' = db
                /\ chg' = [chg EXCEPT !.of[p].pc = "done",
                                      !.of[p].after = DbVirtual(db, c.user),
                                      !.of[p].ret = DbVirtual(db, c.user)]
           ELSE /\ UNCHANGED db_users
                /\ chg' = [chg EXCEPT !.of[p].pc = "insert"]
        /\ UNCHANGED mem_users

\* no row was updated: INSERT ... ON CONFLICT (user_id) DO UPDATE SET
\* virtual_stars = GREATEST(users.virtual_stars + $2, 0)
ChgInsert(p) ==
    LET c == chg.of[p]
        db == DbChangeVirtual(db_users, c.user, c.delta)
    IN  /\ c.pc = "insert"
        /\ db_users' = db
        /\ chg' = [chg EXCEPT !.of[p].pc = "select",
                              !.of[p].after = DbVirtual(db, c.user)]
        /\ UNCHANGED mem_users

\* val = SELECT virtual_stars FROM users WHERE user_id=$1; return int(val or 0)
ChgSelect(p) ==
    /\ chg.of[p].pc = "select"
    /\ chg' = [chg EXCEPT !.of[p].pc = "done",
                          !.of[p].ret = DbVirtual(db_users, chg.of[p].user)]
    /\ UNCHANGED ledgerVars

\* the caller goes on
ChgReturn(p) ==
    /\ chg.of[p].pc = "done"
    /\ chg' = [chg EXCEPT !.of[p] = IdleChange]
    /\ UNCHANGED ledgerVars

\* ensure_user(user_id) by another handler, its round trips succeeding
ChgEnsure(u) ==
    LET o == ensure_user(db_users, mem_users, u, TRUE)
    IN  /\ db_users' = o.db
        /\ mem_users' = o.mem
        /\ UNCHANGED chg

ChgOthers ==
    UNCHANGED << db_pool, refVars, banVars, queueVars, game_locks, delivered,
                 game, refcall, worker, now, invoice_map, invoices, call,
                 free_runs, updates, trial, pace >>

ChangeInit ==
    /\ db_pool = TRUE
    /\ InitTables

ChangeNext ==
    \/ \E p \in Procs, d \in Args : ChgInvoke(p, Payee, d) /\ ChgOthers
    \/ \E p \in Procs : ChgUpdate(p) /\ ChgOthers
    \/ \E p \in Procs : ChgInsert(p) /\ ChgOthers
    \/ \E p \in Procs : ChgSelect(p) /\ ChgOthers
    \/ \E p \in Procs : ChgReturn(p) /\ ChgOthers
    \/ ChgEnsure(Payee) /\ ChgOthers

ChangeSpec == ChangeInit /\ [][ChangeNext]_vars

\* the balances that the deltas log[i], i in I, applied one call after
\* another in some order, lead to from balance b
RECURSIVE Finals(_, _, _)
Finals(b, log, I) ==
    IF I = {} THEN {b}
    ELSE UNION {Finals(Greatest(b + log[i], 0), log, I \ {i}) : i \in I}

\* every call made so far has done its write
AllWritten == \A p \in Procs : chg.of[p].pc \in {"idle", "select", "done"}

\* the balance is the one some order of the calls made so far gives
SequentialBalance ==
    AllWritten =>
       DbVirtual(db_users, Payee) \in Finals(0, chg.log, 1 .. Len(chg.log))

\* C29: with storage available, concurrent change_user_virtual calls on one
\* account leave the balance that the same deltas, clamped at 0, give in some
\* sequential order, and each call returns the balance right after its own
\* update.
ChangeAtomic ==
    /\ SequentialBalance
    /\ \A p \in Procs : chg.of[p].pc = "done" => chg.of[p].ret = chg.of[p].after

\* a call for an account that has a row returns the balance right after its
\* own update
ChangeReturnsOwnWithRow ==
    [][\A p \in Procs :
         (chg.of[p].pc = "update" /\ chg.of[p].pc' = "done")
            => chg.of[p].ret' = DbVirtual(db_users', Payee)]_vars

-----------------------------------------------------------------------------
(* ensure_user called again and again, with the other ledger operations in
   between *)

\* what ensure_user returns: virtual_stars and free_next_at of the row or of
\* the mirror record
EnsureReturn(db, mem, u, ok) ==
    << ensure_user(db, mem, u, ok).ret,
       IF ok THEN DbFreeNext(db, u) ELSE MemFreeNext(mem, u) >>

\* one ensure_user(u) call; ok: its round trips succeed
EnsureCall(u) ==
    \E ok \in DbUp :
        LET o == ensure_user(db_users, mem_users, u, ok)
        IN  /\ db_users' = o.db
            /\ mem_users' = o.mem
            /\ trial' = [fn |-> "ensure_user", arg |-> << u, ok >>,
                         out |-> EnsureReturn(db_users, mem_users, u, ok)]

\* set_user_free_next(u, epoch_ts)
EnsureSetFreeNext(u, epoch_ts) ==
    \E ok \in DbUp :
        LET o == set_user_free_next(db_users, mem_users, u, epoch_ts, ok)
        IN  /\ db_users' = o.db
            /\ mem_users' = o.mem

EnsureOthers ==
    UNCHANGED << db_pool, refVars, banVars, queueVars, game_locks, delivered,
                 game, refcall, worker, now, invoice_map, invoices, call,
                 free_runs, updates, pace, chg >>

EnsureNext ==
    \/ \E u \in Players : EnsureCall(u) /\ EnsureOthers
    \/ \E u \in Players, d \in Args :
          LedgerChange(u, d) /\ trial' = IdleTrial /\ EnsureOthers
    \/ \E u \in Players, v \in Args :
          LedgerSet(u, v) /\ trial' = IdleTrial /\ EnsureOthers
    \/ \E u \in Players, t \in {0, FREE_COOLDOWN} :
          EnsureSetFreeNext(u, t) /\ trial' = IdleTrial /\ EnsureOthers

EnsureSpec == LedgerInit /\ [][EnsureNext]_vars

\* the step is an ensure_user(u) call that ran on the storage branch (ok) or
\* on the in-memory branch
Ensures(u, ok) ==
    /\ trial'.fn = "ensure_user"
    /\ trial'.arg = << u, ok >>
    /\ EnsureCall(u)

\* the call found no account in `store`, created it with every field 0 and
\* returned 0, 0; or it found one, left it as it was and returned its
\* virtual_stars and free_next_at
Idempotent(store, after, u, out) ==
    IF u \in DOMAIN store
    THEN /\ after = store
         /\ out = << store[u].virtual_stars, store[u].free_next_at >>
    ELSE /\ after = Put(store, u, DefaultRow)
         /\ after[u].virtual_stars = 0
         /\ after[u].free_next_at = 0
         /\ out = << 0, 0 >>

\* C30: the ensure_user call that finds no account creates it with
\* virtual_stars 0 and free_next_at 0; every later call, whatever was written
\* in between, returns the current values and changes no field.  The account
\* is the row of users on the storage branch and the mirror record when there
\* is no pool or the round trip raised.
EnsureIdempotent ==
    [][\A u \in Users :
         /\ Ensures(u, TRUE) =>
              /\ Idempotent(db_users, db_users', u, trial'.out)
              /\ mem_users' = mem_users
         /\ Ensures(u, FALSE) =>
              /\ Idempotent(mem_users, mem_users', u, trial'.out)
              /\ db_users' = db_users]_vars

\* a further call for an account that holds stars and a cooldown has just
\* returned them
EnsureIdempotentWitness ==
    /\ trial.fn = "ensure_user"
    /\ trial.arg[2]
    /\ trial.out[1] > 0
    /\ trial.out[2] = FREE_COOLDOWN
    /\ trial.out = << db_users[trial.arg[1]].virtual_stars,
                      db_users[trial.arg[1]].free_next_at >>

-----------------------------------------------------------------------------
(* The lifetime counters spent_real and earned_real, with the other ledger
   operations in between *)

MaxCounter == 1     \* cap on spent_real and earned_real explored

\* the amounts the callers pass: paid_stars behind `if paid_stars > 0`, and
\* the stars of a paid invoice
Amounts == 1 .. MaxArg

CounterInRange(db, mem, u) ==
    /\ DbSpent(db, u) <= MaxCounter
    /\ MemSpent(mem, u) <= MaxCounter
    /\ DbEarned(db, u) <= MaxCounter
    /\ MemEarned(mem, u) <= MaxCounter

\* one add_user_spent_real(u, amount) call
AddSpent(u, amount) ==
    \E ok \in DbUp :
        LET o == add_user_spent_real(db_users, mem_users, u, amount, ok)
        IN  /\ CounterInRange(o.db, o.mem, u)
            /\ db_users' = o.db
            /\ mem_users' = o.mem
            /\ trial' = [fn |-> "add_user_spent_real", arg |-> << u, amount >>,
                         out |-> << >>]

\* one add_user_earned_real(u, amount) call
AddEarned(u, amount) ==
    \E ok \in DbUp :
        LET o == add_user_earned_real(db_users, mem_users, u, amount, ok)
        IN  /\ CounterInRange(o.db, o.mem, u)
            /\ db_users' = o.db
            /\ mem_users' = o.mem
            /\ trial' = [fn |-> "add_user_earned_real", arg |-> << u, amount >>,
                         out |-> << >>]

CounterNext ==
    \/ \E u \in Players, a \in Amounts : AddSpent(u, a) /\ EnsureOthers
    \/ \E u \in Players, a \in Amounts : AddEarned(u, a) /\ EnsureOthers
    \/ \E u \in Players : EnsureCall(u) /\ EnsureOthers
    \/ \E u \in Players, d \in Args :
          LedgerChange(u, d) /\ trial' = IdleTrial /\ EnsureOthers
    \/ \E u \in Players, v \in Args :
          LedgerSet(u, v) /\ trial' = IdleTrial /\ EnsureOthers
    \/ \E u \in Players, t \in {0, FREE_COOLDOWN} :
          EnsureSetFreeNext(u, t) /\ trial' = IdleTrial /\ EnsureOthers

CounterSpec == LedgerInit /\ [][CounterNext]_vars

\* spent_real and earned_real of u, in the table and in its mirror
Lifetime(db, mem, u) ==
    << DbSpent(db, u), MemSpent(mem, u), DbEarned(db, u), MemEarned(mem, u) >>

\* virtual_stars and free_next_at of u, in the table and in its mirror
BalanceAndCooldown(db, mem, u) ==
    << DbVirtual(db, u), MemVirtual(mem, u), DbFreeNext(db, u), MemFreeNext(mem, u) >>

\* the step is a call of add_user_spent_real or add_user_earned_real
Records == trial'.fn \in {"add_user_spent_real", "add_user_earned_real"}

\* C31: no operation lowers spent_real or earned_real, and a call of
\* add_user_spent_real or add_user_earned_real leaves virtual_stars and
\* free_next_at as they were.
LifetimeCountersMonotone ==
    [][\A u \in Users :
         /\ \A k \in 1 .. 4 :
              Lifetime(db_users, mem_users, u)[k] <= Lifetime(db_users', mem_users', u)[k]
         /\ Records =>
              BalanceAndCooldown(db_users', mem_users', u)
                 = BalanceAndCooldown(db_users, mem_users, u)]_vars

\* add_user_spent_real has just been called for an account that holds stars
\* and a cooldown, and spent_real is counted
LifetimeCountersMonotoneWitness ==
    /\ trial.fn = "add_user_spent_real"
    /\ DbSpent(db_users, trial.arg[1]) = MaxCounter
    /\ DbVirtual(db_users, trial.arg[1]) > 0
    /\ DbFreeNext(db_users, trial.arg[1]) = FREE_COOLDOWN

-----------------------------------------------------------------------------
(* The bookkeeping of a game *)

\* the game has not reached inc_user_plays, or is about to call it
BeforeBookkeeping(p) == game[p].pc \in {"throw", "wait", "plays"}

\* increment_referred_play is called in this step
CallsOnPlay(p) == refcall[p].pc = "idle" /\ refcall'[p].pc # "idle"

\* C32: every game that took the lock and goes on to its outcome, win or
\* loss, adds the number of dice it sent to plays_total of its player (0 when
\* every send_dice failed) and calls increment_referred_play for that player
\* exactly once, both before the outcome is classified and reported.
BookkeepingPerGame ==
    /\ [](\A p \in Procs :
            LET f == game[p]
            IN  Running(p) =>
                  /\ BeforeBookkeeping(p) => PlaysTotal(f.user) = 0
                  /\ ~BeforeBookkeeping(p) => PlaysTotal(f.user) = Len(f.results)
                  /\ f.pc \in {"throw", "wait", "plays", "ref"} => refcall[p].pc = "idle"
                  /\ f.pc = "ref_wait" => refcall[p].pc # "idle" /\ refcall[p].user = f.user
                  /\ Scored(p) => refcall[p].pc = "idle")
    /\ [](\A p \in Procs :
            game[p].pc = "done" /\ game[p].ret \in {"win", "ok"}
               => PlaysTotal(game[p].user) = Len(game[p].results))
    /\ [][\A p \in Procs :
            /\ CallsOnPlay(p) => game[p].pc = "ref" /\ game'[p].pc = "ref_wait"
            /\ game'[p].pc = "ref" => game[p].pc = "plays"
            /\ game'[p].pc = "plays" => game[p].pc \in {"wait", "plays"}
            /\ Scored(p)' /\ ~Scored(p) => game[p].pc = "ref_wait"]_vars

\* a game of six throws of which two failed returned a loss, and four plays
\* are counted for its player
BookkeepingPerGameWitness ==
    \E p \in Procs :
       /\ ReturnedOk(p)
       /\ game[p].count = 6
       /\ Len(game[p].results) = 4
       /\ PlaysTotal(game[p].user) = 4

-----------------------------------------------------------------------------
(* Requests that are turned away as busy *)

\* two updates with a pool: every storage round trip is an await at which
\* the other handler may run
ChargeSpec == PlayInit({TRUE}, StartBalances) /\ [][PayNext(MaxUpdates, MaxDeliveries)]_vars

\* the play request of p has written to the ledger: `answer` is reached only
\* through change_user_virtual(user_id, -cost) or set_user_free_next
Charged(p) == call[p].kind = "play" /\ call[p].pc \in {"answer", "game"}

\* C33: a play request that is turned away as busy has written nothing to
\* the ledger: no request that debited its cost, or set the cooldown of the
\* free button, has its start_game_flow return "busy".
BusyLeavesLedger ==
    \A p \in Procs : Charged(p) => game[p].ret # "busy"

\* the handler of p debits the cost of its button in this step, by the
\* UPDATE of the row in the table
DebitStep(p) ==
    /\ call[p].kind = "play"
    /\ call[p].pc = "debit"
    /\ call'[p].pc = "answer"
    /\ db_users' # db_users
    /\ mem_users' = mem_users

\* C34: a game paid from the balance costs exactly the cost of its button,
\* however the requests of one account interleave: every debit lowers
\* virtual_stars by the cost, none of it absorbed by the clamp at 0.
DebitIsExact ==
    [][\A p \in Procs :
         DebitStep(p) =>
            DbVirtual(db_users', call[p].user)
               = DbVirtual(db_users, call[p].user) - BUTTONS[call[p].key].cost]_vars

-----------------------------------------------------------------------------
(* What a game resumed after payment costs *)

\* stars the reset of p's confirmation takes from the payer, when the reset
\* leaves the payer nothing in the table or the mirror
Removed(p) ==
    DbVirtual(db_users, call[p].user) + MemVirtual(mem_users, call[p].user)

\* the reset of p's first confirmation left the payer with no stars
ResetToZero(p) ==
    /\ ResetStep(p)
    /\ ~call[p].replay
    /\ Holdings(db_users', mem_users', call[p].user) = << 0, 0 >>

\* C35: a game resumed after payment costs exactly the cost of its button:
\* the stars paid for the invoice plus the stars the reset to 0 takes from
\* the balance equal the cost, also when the balance changed between the
\* request and the confirmation.
ResumedCostsExact ==
    [][\A p \in Procs :
         ResetToZero(p) =>
            call[p].paid + Removed(p) = BUTTONS[call[p].key].cost]_vars

-----------------------------------------------------------------------------
(* Bans *)

\* ban_user: INSERT INTO banned_users ... ON CONFLICT DO NOTHING; without a
\* pool, or when the INSERT raises, bot._mem_banned.add(user_id)
ban_user(db, mem, u, ok) ==
    IF ok THEN [db |-> db \cup {u}, mem |-> mem]
    ELSE [db |-> db, mem |-> mem \cup {u}]

\* unban_user: DELETE FROM banned_users WHERE user_id=$1; without a pool, or
\* when the DELETE raises, bot._mem_banned.discard(user_id)
unban_user(db, mem, u, ok) ==
    IF ok THEN [db |-> db \ {u}, mem |-> mem]
    ELSE [db |-> db, mem |-> mem \ {u}]

\* what no ban command touches
BanOthers ==
    UNCHANGED << db_pool, ledgerVars, refVars, queueVars, game_locks, delivered,
                 game, refcall, worker, payVars >>

\* the admin command that bans u
Ban(u) ==
    /\ \E ok \in DbUp :
         LET o == ban_user(db_banned, mem_banned, u, ok)
         IN  /\ db_banned' = o.db
             /\ mem_banned' = o.mem
    /\ BanOthers

\* the admin command that lifts the ban of u
Unban(u) ==
    /\ \E ok \in DbUp :
         LET o == unban_user(db_banned, mem_banned, u, ok)
         IN  /\ db_banned' = o.db
             /\ mem_banned' = o.mem
    /\ BanOthers

\* requests and payments of an account that the admin bans and unbans
BanNext ==
    \/ \E u \in Players : Ban(u)
    \/ \E u \in Players : Unban(u)
    \/ Press(PaidKeys, MaxUpdates)
    \/ Confirm(MaxUpdates, 1)
    \/ \E p \in Procs : PaidStep(p)
    \/ \E p \in Procs : CallStep(p)

BanSpec == PlayInit({TRUE}, StartBalances) /\ [][BanNext]_vars

\* the set is_banned looks u up in: the table when there is a pool, the
\* in-memory set otherwise
Banned == IF db_pool THEN db_banned ELSE mem_banned

\* C36: while an account is in the banned set no game of that account enters
\* Running, from a play request or from a confirmation, whether or not the
\* lookup of the ban succeeds.
BannedNeverRuns ==
    [][\A p \in Procs :
         ~Running(p) /\ Running(p)' => game[p].user \notin Banned]_vars

-----------------------------------------------------------------------------
(* Links of an account to itself *)

\* the links of `links` whose referred account is their inviter
SelfLinks(links) == {r \in DOMAIN links : links[r].inviter = r}

\* C37: no referral link has its referred account as inviter, in the table or
\* in the dict, and no increment_referred_play credits the +3 to the account
\* whose play it counts.
NoSelfReferral ==
    /\ SelfLinks(db_referrals) = {}
    /\ SelfLinks(mem_referrals) = {}
    /\ \A p \in Procs :
          refcall[p].pc = "credit" => refcall[p].inviter # refcall[p].user

\* two accounts that invited each other: each has a link to the other, and
\* the plays of u2 have earned u1 the bonus
NoSelfReferralWitness ==
    /\ DOMAIN Links = Users
    /\ Links["u1"].inviter = "u2"
    /\ Links["u2"].inviter = "u1"
    /\ Links["u2"].rewarded
    /\ DbVirtual(db_users, "u1") + MemVirtual(mem_users, "u1") = REF_BONUS

-----------------------------------------------------------------------------
(* Wins and the gifts they lead to: games and workers together *)

\* every throw that is sent hits, so each game of one throw that counted its
\* throw is a win
HitDice == {HIT_MIN}

\* a player presses one-throw buttons in their own chat, one game after the
\* other, while the workers drain the table and may die
RewardNext ==
    \/ /\ \E u \in Players, key \in OneThrowButtons :
            /\ PlaysTotal(u) < MaxPlays
            /\ GameInvoke("g1", u, u, key)
       /\ GameOthers
    \/ GameSteps({"g1"}, HitDice)
    \/ \E w \in Workers : WorkerSteps(w) /\ QueueOthers
    \/ \E w \in Workers : WorkerCrash(w) /\ QueueOthers

RewardSpec == GameInit({TRUE}) /\ [][RewardNext]_vars

\* the wins of u that are past their bookkeeping: with one-throw games whose
\* throws all hit, inc_user_plays has counted one play for each
Wins(u) == PlaysTotal(u)

\* worker w has still to call purchase_and_send for the k-th task of its batch
ToPurchase(w, k) ==
    /\ worker[w].pc \in {"purchase", "mark_sent", "mark_failed", "except_mark", "refund"}
    /\ \/ k > worker[w].i
       \/ k = worker[w].i /\ worker[w].pc = "purchase"

\* the rows of u a worker may still deliver: pending, or claimed by a worker
\* that has not come to them yet
Undelivered(u) ==
    {id \in 1 .. Len(pending_gifts) :
       /\ pending_gifts[id].user_id = u
       /\ \/ pending_gifts[id].status = "pending"
          \/ \E w \in Workers : \E k \in 1 .. Len(worker[w].batch) :
                worker[w].batch[k] = id /\ ToPurchase(w, k)}

\* the game of p sends the gift of its win itself in this step
SendsNow(p) ==
    game[p].pc = "gift" /\ game'[p].pc # "gift" /\ delivered' # delivered

\* the game of p writes to the queue in this step
Queues(p) ==
    /\ game[p].pc \in {"gift", "enqueue"}
    /\ game'[p].pc # game[p].pc
    /\ << pending_gifts', mem_pending_gifts' >> # << pending_gifts, mem_pending_gifts >>

\* C38: at most one gift is delivered for each win.  A game that sends the
\* gift itself writes no row, then or later; a game that does not writes
\* exactly one row and sends nothing; a worker delivers only the task it is
\* at, one gift, to the account of the row; and the gifts an account has
\* received plus the rows that may still be delivered to it never exceed its
\* wins.
OneRewardPerWin ==
    /\ [](\A u \in Users : delivered[u] + Cardinality(Undelivered(u)) <= Wins(u))
    /\ [][\A p \in Procs :
            /\ SendsNow(p) =>
                 /\ delivered' = [delivered EXCEPT ![game[p].user] = @ + 1]
                 /\ UNCHANGED << pending_gifts, mem_pending_gifts >>
                 /\ game'[p].pc = "menu"
            /\ Queues(p) =>
                 /\ game[p].pc = "enqueue"
                 /\ delivered' = delivered
                 /\ Len(pending_gifts') + Len(mem_pending_gifts')
                      = Len(pending_gifts) + Len(mem_pending_gifts) + 1
            /\ game'[p].pc = "enqueue" /\ game[p].pc # "enqueue" =>
                 game[p].pc = "gift" /\ delivered' = delivered]_vars
    /\ [][\A w \in Workers :
            worker[w].pc = "purchase" /\ worker'[w].pc # "purchase"
              /\ delivered' # delivered =>
                 /\ pending_gifts[CurrentId(w)].status = "processing"
                 /\ CurrentId(w) \in Undelivered(pending_gifts[CurrentId(w)].user_id)
                 /\ delivered' = [delivered EXCEPT
                                    ![pending_gifts[CurrentId(w)].user_id] = @ + 1]]_vars

\* two wins of u1: the gift of one was sent by the game, the other went
\* through the table and a worker delivered it and marked it sent
OneRewardPerWinWitness ==
    /\ Wins("u1") = 2
    /\ delivered["u1"] = 2
    /\ Len(pending_gifts) = 1
    /\ pending_gifts[1].status = "sent"
    /\ \A p \in Procs : game[p].pc = "idle"

-----------------------------------------------------------------------------
(* A table with more pending rows than one batch takes *)

MaxRows == 6        \* rows of pending_gifts when the workers start

\* wins of u1 that went to the table while no worker ran, oldest first
BacklogInit ==
    /\ db_pool = TRUE
    /\ db_users = EmptyTable
    /\ mem_users = EmptyTable
    /\ db_referrals = EmptyTable
    /\ mem_referrals = EmptyTable
    /\ db_banned = {}
    /\ mem_banned = {}
    /\ pending_gifts = [i \in 1 .. MaxRows |-> GiftRow("u1", GiftCost(FALSE), FALSE)]
    /\ mem_pending_gifts = << >>
    /\ row_lock = EmptyTable
    /\ bot_stars = 0
    /\ game_locks = {}
    /\ delivered = [u \in Users |-> 0]
    /\ game = [p \in Procs |-> IdleGame]
    /\ refcall = [p \in Procs |-> IdleRef]
    /\ worker = [w \in Workers |-> IdleWorker]
    /\ now = 0
    /\ invoice_map = EmptyTable
    /\ invoices = << >>
    /\ call = [p \in Procs |-> IdleCall]
    /\ free_runs = [u \in Users |-> << >>]
    /\ updates = 0
    /\ trial = IdleTrial
    /\ pace = IdlePace
    /\ chg = IdleChanges

BacklogNext ==
    \/ \E w \in Workers : WorkerSelect(w) /\ QueueOthers
    \/ \E w \in Workers : WorkerCommit(w) /\ QueueOthers
    \/ \E w \in Workers : WorkerPurchase(w) /\ QueueOthers
    \/ \E w \in Workers : WorkerMarkSent(w) /\ QueueOthers
    \/ \E w \in Workers : WorkerMarkFailed(w) /\ QueueOthers
    \/ \E w \in Workers : WorkerExceptMark(w) /\ QueueOthers
    \/ \E w \in Workers : WorkerRefund(w) /\ QueueOthers

BacklogSpec == BacklogInit /\ [][BacklogNext]_vars

\* the SELECT ... FOR UPDATE of worker w returns rows in this step
ClaimStep(w) == worker[w].pc = "poll" /\ worker'[w].pc = "locked"

\* row id is pending and no transaction of another worker holds its lock
Available(id, w) ==
    /\ pending_gifts[id].status = "pending"
    /\ id \in DOMAIN row_lock => row_lock[id] = w

\* worker w goes on to another task of its batch in this step
Advances(w) ==
    /\ worker[w].pc \notin {"poll", "locked"}
    /\ worker'[w].pc # "poll"
    /\ worker'[w].i # worker[w].i

\* C39: one fetch_and_lock_pending call takes at most BATCH_SIZE rows, each
\* of them pending and not locked by another worker, oldest first: every
\* pending row it leaves that no other worker has locked is younger than all
\* it took.  The worker then handles its batch one task at a time in that
\* order: each mark is written on the task the loop is at and on no other
\* row, and the loop moves from a task to the next one of the batch.
ClaimOldestFirst ==
    /\ [][\A w \in Workers :
            ClaimStep(w) =>
               LET b == worker'[w].batch
               IN  /\ Len(b) \in 1 .. BATCH_SIZE
                   /\ \A k \in 1 .. Len(b) :
                         /\ Available(b[k], w)
                         /\ row_lock'[b[k]] = w
                   /\ \A k \in 1 .. Len(b) - 1 : b[k] < b[k + 1]
                   /\ \A id \in 1 .. Len(pending_gifts) :
                         Available(id, w) /\ id \notin Range(b)
                            => \A k \in 1 .. Len(b) : b[k] < id]_vars
    /\ [][\A w \in Workers :
            /\ worker'[w].pc \notin {"poll", "locked"} /\ worker[w].pc # "poll"
                 => worker'[w].batch = worker[w].batch
            /\ Advances(w) => worker'[w].i = worker[w].i + 1
            /\ \A to \in Final :
                  Marks(w, to) =>
                     \A id \in 1 .. Len(pending_gifts) :
                        id # CurrentId(w) => pending_gifts'[id] = pending_gifts[id]]_vars
    /\ [](\A w \in Workers :
            worker[w].pc \notin {"poll", "locked"} =>
               /\ worker[w].i \in 1 .. Len(worker[w].batch)
               /\ \A k \in 1 .. Len(worker[w].batch) :
                     /\ k < worker[w].i =>
                          pending_gifts[worker[w].batch[k]].status # "pending"
                     /\ k > worker[w].i =>
                          pending_gifts[worker[w].batch[k]].status = "processing")

\* w1 took the five oldest rows of six and is at the third, with the first
\* two marked; w2 took the row that was left
ClaimOldestFirstWitness ==
    /\ worker["w1"].batch = << 1, 2, 3, 4, 5 >>
    /\ worker["w1"].pc = "purchase"
    /\ worker["w1"].i = 3
    /\ pending_gifts[1].status = "sent"
    /\ pending_gifts[2].status = "failed"
    /\ worker["w2"].batch = << 6 >>
    /\ worker["w2"].pc = "purchase"

============================================================================
